---- MODULE Spec2Model ----
(***************************************************************************)
(* State-machine model of the LiveKit voice pipeline:                      *)
(*   VoiceDetection  (turn detector: frame counters, debounce timers),     *)
(*   AudioMonitor    (volume window, forwarding of detector events),       *)
(*   LiveKitService  (per-participant processing guard, room lifecycle).   *)
(* JavaScript handlers run to completion, so every handler, together with  *)
(* the listeners it calls synchronously, is one action.  The part of an    *)
(* async function after an await is a separate action.                     *)
(* Time (Date.now()) is the variable now, in ticks; the durations of the   *)
(* detection config are given in the same ticks.                           *)
(* Fields that are written and never read (lastActivity, startTime,        *)
(* participantBuffers, userState.buffers with turn detection enabled) are  *)
(* left out of the state.                                                  *)
(***************************************************************************)
EXTENDS Integers, Sequences, FiniteSets, TLC

----------------------------------------------------------------------------
(* Bounds of the model *)

MaxTime == 5
MaxFrames == 8

(* The detection config of the checked runs: durations in ticks, frame     *)
(* counts and the volume window scaled down from the defaults.             *)
MinSpeechTicks == 2
MaxSpeechTicks == 3
DebounceTicks == 1
SpeechFrames == 2
SilenceFrames == 2
WindowSize == 2

(* Program constants *)
MaxBufferSize == 10 * 1024 * 1024
MinValidBytes == 1024
MinRawBytes == 2048
RiffCheckBytes == 12

(* Thresholds and volumes in thousandths of full scale *)
SilenceThreshold == 10
SpeechThreshold == 100
SpeakingThreshold == 100

(* AudioMonitorConfig, as LiveKitService.initializeAudioMonitor builds it  *)
BaseConfig ==
  [silenceThreshold |-> SilenceThreshold, speechThreshold |-> SpeechThreshold,
   speakingThreshold |-> SpeakingThreshold,
   minSpeechDuration |-> MinSpeechTicks, maxSpeechDuration |-> MaxSpeechTicks,
   debounceThreshold |-> DebounceTicks,
   silenceFramesRequired |-> SilenceFrames,
   speechFramesRequired |-> SpeechFrames,
   volumeWindowSize |-> WindowSize]

Participants == {"p1", "p2"}
FrameBytes == 1024

(* rms of the frames the transport delivers: silence, ambiguous, speech *)
RmsSilence == 5
RmsAmbiguous == 50
RmsSpeech == 200
RmsValues == {RmsSilence, RmsAmbiguous, RmsSpeech}

----------------------------------------------------------------------------
(* Maps (JavaScript Map): functions whose domain is the set of keys *)

EmptyMap == [x \in {} |-> TRUE]
Put(m, k, v) == [x \in (DOMAIN m) \cup {k} |-> IF x = k THEN v ELSE m[x]]
Del(m, k) == [x \in (DOMAIN m) \ {k} |-> m[x]]
Has(m, k) == k \in DOMAIN m

(* An emitted event.  buf is the audio buffer argument (the frames it is   *)
(* the concatenation of), dur the duration argument, timer the id of the   *)
(* debounce timer whose callback emitted it (0: emitted while processing a *)
(* frame).                                                                 *)
Ev(type, p, buf, dur, timer) ==
  [type |-> type, p |-> p, buf |-> buf, dur |-> dur, timer |-> timer]

NoBuf == [frames |-> <<>>, len |-> 0, head |-> "pcm"]

----------------------------------------------------------------------------
(* State *)

VARIABLES
  config,              \* the detection config (this.config of monitor and detector)
  now,                 \* Date.now()
  frameSeq,            \* per participant: frames the transport has delivered
  streams,             \* participants whose audio stream is being read
  participantStates,   \* VoiceDetection.participantStates
  debounceTimers,      \* VoiceDetection.debounceTimers: participant -> timer id
  processingFlags,     \* VoiceDetection.processingFlags
  timerHeap,           \* the runtime's pending timers
  monitorStates,       \* AudioMonitor.participantStates
  volumeBuffers,       \* AudioMonitor.volumeBuffers
  isMonitoring,        \* AudioMonitor.isMonitoring
  rooms,               \* LiveKitService.rooms holds the room
  audioMonitors,       \* LiveKitService.audioMonitors holds the room's monitor
  userStates,          \* LiveKitService.userStates
  inflight,            \* processSpeechTurn calls waiting in transcription
  agentState,          \* LiveKitService.agentState
  activeAudioPlayers,  \* LiveKitService.activeAudioPlayers: the keys it holds
  responses,           \* participants whose reply the runtime is having spoken
  emitted,             \* events emitted by the last step, in order
  lastAct,             \* the last step: [kind, p]
  sinceStart,          \* history: what happened to p's turn since speechStarted
  freshRun,            \* history: frames since state creation, all speech; -1 otherwise
  stoppedTimers,       \* history: per participant, the newest timer id cancelled by stopMonitoring
  supersededTimers,    \* history: per participant, the newest timer that was pending when a speech run reached speechFramesRequired
  skipped,             \* history: turns the processing guard turned away (first frame of each)
  handed,              \* history: turns handed to transcription (first frame of each)
  runStartAt,          \* history: time of the first speech frame of the run in progress
  turnTimes,           \* history: of the turn in progress: first speech frame, start, pause
  finalTimes,          \* history: turnTimes of the turn the last step finalized or discarded
  finalized,           \* history: what processSpeechTurn was called with in the last step
  turnFrom,            \* history: per participant, the frame that opened its turn
  runs,                \* history: per participant, the runs of frames received last
  direct,              \* turn detection on or off; without it: the audio callbacks, the turns
                       \* accumulated per participant, their timers, the turns handed over
  join,                \* the autoJoinRoom calls in progress, the Room objects and connectedRooms
  audioCall            \* the last call of an audio conversion routine: arguments and result

vars == <<config, now, frameSeq, streams, participantStates, debounceTimers,
          processingFlags, timerHeap, monitorStates, volumeBuffers,
          isMonitoring, rooms, audioMonitors, userStates, inflight, agentState,
          emitted, lastAct, sinceStart, freshRun, stoppedTimers,
          supersededTimers, skipped, handed, runStartAt, turnTimes,
          finalTimes, finalized, activeAudioPlayers, responses, audioCall, runs, turnFrom, join, direct>>

----------------------------------------------------------------------------
(* VoiceDetection *)

(* A frame as delivered: seq identifies its bytes, len is its byte length, *)
(* head what its first 12 bytes look like, rms its loudness.  A buffered   *)
(* frame keeps seq, len and head.                                          *)
Stored(frame) == [seq |-> frame.seq, len |-> frame.len, head |-> frame.head]

NewVoiceActivityState ==
  [isSpeaking |-> FALSE, speechStartTime |-> 0, speechEndTime |-> 0,
   buffers |-> <<>>, totalLength |-> 0,
   speechFrameCount |-> 0, silenceFrameCount |-> 0]

(* w is the detector: [states, timers, flags, heap, evs] *)
initializeParticipantState(w, p) ==
  [w EXCEPT !.states = Put(@, p, NewVoiceActivityState),
            !.flags = Put(@, p, FALSE)]

resetParticipantState(w, p) ==
  IF Has(w.states, p)
    THEN [w EXCEPT !.states[p] =
            [@ EXCEPT !.isSpeaking = FALSE, !.speechStartTime = 0,
                      !.speechEndTime = 0, !.buffers = <<>>,
                      !.totalLength = 0, !.speechFrameCount = 0,
                      !.silenceFrameCount = 0]]
    ELSE w

(* manageBufferSize with an if for the while: one eviction per frame *)
manageBufferSizeOnce(st) ==
  IF st.totalLength > MaxBufferSize /\ Len(st.buffers) > 1
    THEN [st EXCEPT !.buffers = Tail(@),
                    !.totalLength = @ - Head(st.buffers).len]
    ELSE st

RECURSIVE manageBufferSizeKeepsTotal(_)
manageBufferSizeKeepsTotal(st) ==
  IF st.totalLength > MaxBufferSize /\ Len(st.buffers) > 1
    THEN manageBufferSizeKeepsTotal([st EXCEPT !.buffers = Tail(@)])
    ELSE st

RECURSIVE manageBufferSizeDropsSecond(_)
manageBufferSizeDropsSecond(st) ==
  IF st.totalLength > MaxBufferSize /\ Len(st.buffers) > 1
    THEN manageBufferSizeDropsSecond(
           [st EXCEPT !.buffers = <<Head(@)>> \o Tail(Tail(@)),
                      !.totalLength = @ - st.buffers[2].len])
    ELSE st

RECURSIVE manageBufferSize(_)
manageBufferSize(st) ==
  IF st.totalLength > MaxBufferSize /\ Len(st.buffers) > 1
    THEN manageBufferSize([st EXCEPT !.buffers = Tail(@),
                                     !.totalLength = @ - Head(st.buffers).len])
    ELSE st

RECURSIVE SumLen(_)
SumLen(bufs) == IF bufs = <<>> THEN 0 ELSE Head(bufs).len + SumLen(Tail(bufs))

(* Buffer.concat: the frames in order; the first bytes are those of the    *)
(* first non-empty frame.                                                  *)
BufferConcat(bufs) ==
  [frames |-> [i \in 1..Len(bufs) |-> bufs[i].seq],
   len |-> SumLen(bufs),
   head |-> IF bufs = <<>> THEN "pcm" ELSE Head(bufs).head]

isValidAudioBuffer(buffer) ==
  IF buffer.len < MinValidBytes THEN FALSE
  ELSE IF buffer.len > RiffCheckBytes /\ buffer.head \in {"RIFF/WAVE", "RIFF/other"}
    THEN buffer.head = "RIFF/WAVE"
  ELSE buffer.len >= MinRawBytes

clearTimeout(heap, p, id) == {t \in heap : ~(t.p = p /\ t.id = id)}

(* processSpeechTurn without the plausibility check of the buffer *)
processSpeechTurnNoValidate(w, p, state, t, timer) ==
  LET speechDuration == t - state.speechStartTime
      completeAudioBuffer == BufferConcat(state.buffers)
  IN  IF speechDuration < config.minSpeechDuration THEN resetParticipantState(w, p)
      ELSE IF Len(state.buffers) = 0 \/ state.totalLength = 0
        THEN resetParticipantState(w, p)
      ELSE resetParticipantState(
             [w EXCEPT !.evs = @ \o
                <<Ev("speechEnded", p, completeAudioBuffer, 0, timer),
                  Ev("speechTurn", p, completeAudioBuffer, speechDuration, timer)>>],
             p)

(* processSpeechTurn that emits and leaves the state as it is *)
processSpeechTurnNoReset(w, p, state, t, timer) ==
  LET speechDuration == t - state.speechStartTime
      completeAudioBuffer == BufferConcat(state.buffers)
  IN  IF speechDuration < config.minSpeechDuration THEN resetParticipantState(w, p)
      ELSE IF Len(state.buffers) = 0 \/ state.totalLength = 0
        THEN resetParticipantState(w, p)
      ELSE IF ~isValidAudioBuffer(completeAudioBuffer)
        THEN resetParticipantState(w, p)
      ELSE [w EXCEPT !.evs = @ \o
              <<Ev("speechEnded", p, completeAudioBuffer, 0, timer),
                Ev("speechTurn", p, completeAudioBuffer, speechDuration, timer)>>]

(* state is the VoiceActivityState object the caller holds; timer the id   *)
(* of the calling debounce timer, 0 for the max-duration cutoff.           *)
processSpeechTurn(w, p, state, t, timer) ==
  LET speechDuration == t - state.speechStartTime
      completeAudioBuffer == BufferConcat(state.buffers)
  IN  IF speechDuration < config.minSpeechDuration THEN resetParticipantState(w, p)
      ELSE IF Len(state.buffers) = 0 \/ state.totalLength = 0
        THEN resetParticipantState(w, p)
      ELSE IF ~isValidAudioBuffer(completeAudioBuffer)
        THEN resetParticipantState(w, p)
      ELSE resetParticipantState(
             [w EXCEPT !.evs = @ \o
                <<Ev("speechEnded", p, completeAudioBuffer, 0, timer),
                  Ev("speechTurn", p, completeAudioBuffer, speechDuration, timer)>>],
             p)

(* handleSpeechStart that forgets the pending debounce timer *)
handleSpeechStartNoCancel(w, p, t) ==
  IF Has(w.flags, p) /\ w.flags[p] THEN w
  ELSE [w EXCEPT
          !.states[p] = [@ EXCEPT !.isSpeaking = TRUE,
                                  !.speechStartTime = t,
                                  !.buffers = <<>>, !.totalLength = 0,
                                  !.speechFrameCount = 0,
                                  !.silenceFrameCount = 0],
          !.evs = Append(@, Ev("speechStarted", p, NoBuf, 0, 0))]

handleSpeechStart(w, p, t) ==
  IF Has(w.flags, p) /\ w.flags[p] THEN w
  ELSE LET cleared == IF Has(w.timers, p)
                        THEN [w EXCEPT !.heap = clearTimeout(@, p, w.timers[p]),
                                       !.timers = Del(@, p)]
                        ELSE w
       IN  [cleared EXCEPT
              !.states[p] = [@ EXCEPT !.isSpeaking = TRUE,
                                      !.speechStartTime = t,
                                      !.buffers = <<>>, !.totalLength = 0,
                                      !.speechFrameCount = 0,
                                      !.silenceFrameCount = 0],
              !.evs = Append(@, Ev("speechStarted", p, NoBuf, 0, 0))]

(* setTimeout: the timer enters the runtime's timer heap; id names it.     *)
(* orphan holds the state object the callback closes over once the map no  *)
(* longer holds that object.                                               *)
setupDebouncedProcessing(w, p, t, id) ==
  LET cleared == IF Has(w.timers, p)
                   THEN [w EXCEPT !.heap = clearTimeout(@, p, w.timers[p])]
                   ELSE w
  IN  IF Has(cleared.flags, p) /\ cleared.flags[p]
        THEN resetParticipantState(cleared, p)
        ELSE [cleared EXCEPT
                !.heap = @ \cup {[p |-> p, id |-> id,
                                  due |-> t + config.debounceThreshold,
                                  orphan |-> <<>>]},
                !.timers = Put(@, p, id)]

handlePotentialSpeechEnd(w, p, t, id) ==
  setupDebouncedProcessing([w EXCEPT !.states[p].isSpeaking = FALSE], p, t, id)

(* the transitions with the max-duration check not guarded by isSpeaking *)
detectTransitionUnguarded(w, p, st, t, id) ==
  IF ~st.isSpeaking /\ st.speechFrameCount >= config.speechFramesRequired
    THEN handleSpeechStart(w, p, t)
  ELSE IF st.isSpeaking /\ st.silenceFrameCount >= config.silenceFramesRequired
    THEN handlePotentialSpeechEnd(w, p, t, id)
  ELSE IF t - st.speechStartTime > config.maxSpeechDuration
    THEN processSpeechTurn(w, p, st, t, 0)
  ELSE w

(* the transitions with the speech start one frame late (> for >=) *)
detectTransitionLate(w, p, st, t, id) ==
  IF ~st.isSpeaking /\ st.speechFrameCount > config.speechFramesRequired
    THEN handleSpeechStart(w, p, t)
  ELSE IF st.isSpeaking /\ st.silenceFrameCount >= config.silenceFramesRequired
    THEN handlePotentialSpeechEnd(w, p, t, id)
  ELSE IF st.isSpeaking /\ t - st.speechStartTime > config.maxSpeechDuration
    THEN processSpeechTurn(w, p, st, t, 0)
  ELSE w

(* The transitions at the end of processAudioFrame; st is p's state after  *)
(* the frame was buffered and counted, id names the timer a pause creates. *)
detectTransition(w, p, st, t, id) ==
  IF ~st.isSpeaking /\ st.speechFrameCount >= config.speechFramesRequired
    THEN handleSpeechStart(w, p, t)
  ELSE IF st.isSpeaking /\ st.silenceFrameCount >= config.silenceFramesRequired
    THEN handlePotentialSpeechEnd(w, p, t, id)
  ELSE IF st.isSpeaking /\ t - st.speechStartTime > config.maxSpeechDuration
    THEN processSpeechTurn(w, p, st, t, 0)
  ELSE w

(* processAudioFrame that buffers a frame only while the participant speaks *)
vdProcessAudioFrameSpeakingOnly(w, p, frame, t) ==
  LET w1 == IF ~Has(w.states, p) THEN initializeParticipantState(w, p) ELSE w
      st0 == w1.states[p]
      rms == frame.rms
      isSpeechFrame == rms > config.speechThreshold
      isSilenceFrame == rms < config.silenceThreshold
      st1 == IF st0.isSpeaking
               THEN manageBufferSize(
                      [st0 EXCEPT !.buffers = Append(@, Stored(frame)),
                                  !.totalLength = @ + frame.len])
               ELSE st0
      st2 == IF isSpeechFrame
               THEN [st1 EXCEPT !.speechFrameCount = @ + 1,
                                !.silenceFrameCount = 0]
             ELSE IF isSilenceFrame
               THEN [st1 EXCEPT !.silenceFrameCount = @ + 1,
                                !.speechFrameCount = 0]
             ELSE st1
  IN  detectTransition([w1 EXCEPT !.states[p] = st2], p, st2, t, frame.seq)

(* processAudioFrame whose counters are never set back by a frame of the   *)
(* other kind                                                              *)
vdProcessAudioFrameNoSetBack(w, p, frame, t) ==
  LET w1 == IF ~Has(w.states, p) THEN initializeParticipantState(w, p) ELSE w
      st0 == w1.states[p]
      rms == frame.rms
      isSpeechFrame == rms > config.speechThreshold
      isSilenceFrame == rms < config.silenceThreshold
      st1 == manageBufferSize(
               [st0 EXCEPT !.buffers = Append(@, Stored(frame)),
                           !.totalLength = @ + frame.len])
      st2 == IF isSpeechFrame
               THEN [st1 EXCEPT !.speechFrameCount = @ + 1]
             ELSE IF isSilenceFrame
               THEN [st1 EXCEPT !.silenceFrameCount = @ + 1]
             ELSE st1
  IN  detectTransition([w1 EXCEPT !.states[p] = st2], p, st2, t, frame.seq)

(* processAudioFrame in which a frame that is neither speech nor silence   *)
(* resets both counters                                                    *)
vdProcessAudioFrameAmbiguousResets(w, p, frame, t) ==
  LET w1 == IF ~Has(w.states, p) THEN initializeParticipantState(w, p) ELSE w
      st0 == w1.states[p]
      rms == frame.rms
      isSpeechFrame == rms > config.speechThreshold
      isSilenceFrame == rms < config.silenceThreshold
      st1 == manageBufferSize(
               [st0 EXCEPT !.buffers = Append(@, Stored(frame)),
                           !.totalLength = @ + frame.len])
      st2 == IF isSpeechFrame
               THEN [st1 EXCEPT !.speechFrameCount = @ + 1,
                                !.silenceFrameCount = 0]
             ELSE IF isSilenceFrame
               THEN [st1 EXCEPT !.silenceFrameCount = @ + 1,
                                !.speechFrameCount = 0]
             ELSE [st1 EXCEPT !.silenceFrameCount = 0, !.speechFrameCount = 0]
  IN  detectTransition([w1 EXCEPT !.states[p] = st2], p, st2, t, frame.seq)

vdProcessAudioFrame(w, p, frame, t) ==
  LET w1 == IF ~Has(w.states, p) THEN initializeParticipantState(w, p) ELSE w
      st0 == w1.states[p]
      rms == frame.rms
      isSpeechFrame == rms > config.speechThreshold
      isSilenceFrame == rms < config.silenceThreshold
      st1 == manageBufferSize(
               [st0 EXCEPT !.buffers = Append(@, Stored(frame)),
                           !.totalLength = @ + frame.len])
      st2 == IF isSpeechFrame
               THEN [st1 EXCEPT !.speechFrameCount = @ + 1,
                                !.silenceFrameCount = 0]
             ELSE IF isSilenceFrame
               THEN [st1 EXCEPT !.silenceFrameCount = @ + 1,
                                !.speechFrameCount = 0]
             ELSE st1
  IN  detectTransition([w1 EXCEPT !.states[p] = st2], p, st2, t, frame.seq)

(* The callback of a debounce timer tm *)
debounceCallback(w, tm, t) ==
  LET p == tm.p
      state == IF tm.orphan # <<>> THEN tm.orphan[1] ELSE w.states[p]
      w1 == [w EXCEPT !.flags = Put(@, p, TRUE),
                      !.heap = @ \ {tm}]
      w2 == processSpeechTurn(w1, p, state, t, tm.id)
  IN  [w2 EXCEPT !.flags = Put(@, p, FALSE), !.timers = Del(@, p)]

(* cleanup that deletes the map entries and leaves the timer running *)
vdCleanupNoClear(w, p) ==
  [w EXCEPT
     !.heap = {IF tm.p = p /\ tm.orphan = <<>> /\ Has(w.states, p)
                 THEN [tm EXCEPT !.orphan = <<w.states[p]>>]
                 ELSE tm : tm \in w.heap},
     !.timers = Del(@, p),
     !.states = Del(@, p),
     !.flags = Del(@, p)]

(* cleanup called without the participant: clears every participant *)
vdCleanupAll(w, p) ==
  [w EXCEPT !.heap = {}, !.timers = EmptyMap, !.states = EmptyMap,
            !.flags = EmptyMap]

(* cleanup(participantId).  A timer of p that stays in the heap keeps the  *)
(* state object alive through its closure.                                 *)
vdCleanup(w, p) ==
  LET cleared == IF Has(w.timers, p)
                   THEN [w EXCEPT !.heap = clearTimeout(@, p, w.timers[p]),
                                  !.timers = Del(@, p)]
                   ELSE w
  IN  [cleared EXCEPT
         !.heap = {IF tm.p = p /\ tm.orphan = <<>> /\ Has(w.states, p)
                     THEN [tm EXCEPT !.orphan = <<w.states[p]>>]
                     ELSE tm : tm \in cleared.heap},
         !.states = Del(@, p),
         !.flags = Del(@, p)]

----------------------------------------------------------------------------
(* AudioMonitor *)

(* am is the monitor: [states, volumes, isMonitoring, evs] *)
handleSpeechStarted(am, p) ==
  IF Has(am.states, p) /\ ~am.states[p].isSpeaking
    THEN [am EXCEPT !.states[p].isSpeaking = TRUE,
                    !.evs = Append(@, Ev("speakingStarted", p, NoBuf, 0, 0))]
    ELSE am

handleSpeechEnded(am, e) ==
  IF Has(am.states, e.p) /\ am.states[e.p].isSpeaking
    THEN [am EXCEPT !.states[e.p].isSpeaking = FALSE,
                    !.evs = Append(@, Ev("speakingStopped", e.p, e.buf, 0, e.timer))]
    ELSE am

(* setupVoiceDetectionEvents: the listeners on the detector's events *)
RECURSIVE onDetectorEvents(_, _)
onDetectorEvents(am, evs) ==
  IF evs = <<>> THEN am
  ELSE LET e == Head(evs)
           am1 == IF e.type = "speechStarted" THEN handleSpeechStarted(am, e.p)
                  ELSE IF e.type = "speechEnded" THEN handleSpeechEnded(am, e)
                  ELSE IF e.type = "speechTurn"
                    THEN [am EXCEPT !.evs =
                            Append(@, Ev("speakingStopped", e.p, e.buf, 0, e.timer))]
                  ELSE am
       IN  onDetectorEvents(am1, Tail(evs))

startMonitoring(am, p) ==
  LET am1 == IF ~Has(am.states, p)
               THEN [am EXCEPT !.states = Put(@, p, [isSpeaking |-> FALSE]),
                               !.volumes = Put(@, p, <<>>)]
               ELSE am
  IN  [am1 EXCEPT !.isMonitoring = TRUE]

(* stopMonitoring that leaves the participant's volume window in place *)
stopMonitoringKeepsAll(am, p) == am

stopMonitoringKeepsVolumes(am, p) ==
  LET am1 == [am EXCEPT !.states = Del(@, p)]
  IN  IF DOMAIN am1.states = {} THEN [am1 EXCEPT !.isMonitoring = FALSE] ELSE am1

(* the monitor's part of stopMonitoring; the detector's cleanup is called  *)
(* with it by the action                                                   *)
stopMonitoring(am, p) ==
  LET am1 == [am EXCEPT !.states = Del(@, p), !.volumes = Del(@, p)]
  IN  IF DOMAIN am1.states = {} THEN [am1 EXCEPT !.isMonitoring = FALSE] ELSE am1

(* updateVolumeBuffer that drops the newest entry on overflow (pop for shift) *)
updateVolumeBufferPop(am, p, volume) ==
  LET vb0 == IF Has(am.volumes, p) THEN am.volumes[p] ELSE <<>>
      vb1 == Append(vb0, volume)
      vb2 == IF Len(vb1) > config.volumeWindowSize
               THEN SubSeq(vb1, 1, Len(vb1) - 1) ELSE vb1
  IN  [am EXCEPT !.volumes = Put(@, p, vb2)]

updateVolumeBuffer(am, p, volume) ==
  LET vb0 == IF Has(am.volumes, p) THEN am.volumes[p] ELSE <<>>
      vb1 == Append(vb0, volume)
      vb2 == IF Len(vb1) > config.volumeWindowSize THEN Tail(vb1) ELSE vb1
  IN  [am EXCEPT !.volumes = Put(@, p, vb2)]

RECURSIVE SumSeq(_)
SumSeq(s) == IF s = <<>> THEN 0 ELSE Head(s) + SumSeq(Tail(s))

(* checkForInterruption that leaves the window as it is *)
checkForInterruptionNoClear(am, p) ==
  IF ~Has(am.volumes, p) \/ Len(am.volumes[p]) < config.volumeWindowSize THEN am
  ELSE IF SumSeq(am.volumes[p]) > config.speakingThreshold * Len(am.volumes[p])
    THEN [am EXCEPT !.evs = Append(@, Ev("interruptionDetected", p, NoBuf, 0, 0))]
  ELSE am

(* avgVolume > speakingThreshold, with avgVolume = sum / length *)
checkForInterruption(am, p) ==
  IF ~Has(am.volumes, p) \/ Len(am.volumes[p]) < config.volumeWindowSize THEN am
  ELSE IF SumSeq(am.volumes[p]) > config.speakingThreshold * Len(am.volumes[p])
    THEN [am EXCEPT !.evs = Append(@, Ev("interruptionDetected", p, NoBuf, 0, 0)),
                    !.volumes[p] = <<>>]
  ELSE am

----------------------------------------------------------------------------
(* LiveKitService *)

(* ls is the service: [userStates, inflight, agentState, rooms, skipped,   *)
(* handed, evs].  obj names the userState object a call holds.             *)
lsProcessSpeechTurnNoGuard(ls, e) ==
  LET p == e.p IN
  IF ~Has(ls.userStates, p) THEN ls
  ELSE [ls EXCEPT !.userStates[p].isProcessing = TRUE,
                  !.agentState = "transcribing",
                  !.inflight = @ \cup {[p |-> p, frames |-> e.buf.frames,
                                        obj |-> ls.userStates[p].obj]},
                  !.handed[p] = @ \cup {e.buf.frames[1]},
                  !.evs = Append(@, Ev("transcribe", p, e.buf, 0, e.timer))]

lsProcessSpeechTurn(ls, e) ==
  LET p == e.p IN
  IF ~Has(ls.userStates, p) THEN ls
  ELSE IF ls.userStates[p].isProcessing
    THEN [ls EXCEPT !.skipped[p] = @ \cup
            (IF \E f \in ls.inflight : f.p = p /\ f.frames # e.buf.frames
               THEN {e.buf.frames[1]} ELSE {})]
  ELSE [ls EXCEPT !.userStates[p].isProcessing = TRUE,
                  !.agentState = "transcribing",
                  !.inflight = @ \cup {[p |-> p, frames |-> e.buf.frames,
                                        obj |-> ls.userStates[p].obj]},
                  !.handed[p] = @ \cup {e.buf.frames[1]},
                  !.evs = Append(@, Ev("transcribe", p, e.buf, 0, e.timer))]

(* The room's name: the key of the service's per-room maps *)
RoomName == "room"

handleInterruption(ls) == [ls EXCEPT !.players = @ \ {RoomName}]

(* setupAudioMonitorEvents and the service listeners of setupAgentBehavior *)
RECURSIVE onMonitorEvents(_, _, _)
onMonitorEvents(ls, evs, obj) ==
  IF evs = <<>> THEN ls
  ELSE LET e == Head(evs)
           ls1 == IF e.type = "speakingStarted"
                    THEN IF ~Has(ls.userStates, e.p)
                           THEN [ls EXCEPT !.userStates =
                                   Put(@, e.p, [isProcessing |-> FALSE, obj |-> obj])]
                           ELSE ls
                  ELSE IF e.type = "speakingStopped"
                    THEN lsProcessSpeechTurn(
                           IF ls.rooms THEN lsProcessSpeechTurn(ls, e) ELSE ls, e)
                  ELSE IF e.type = "interruptionDetected" THEN handleInterruption(ls)
                  ELSE ls
       IN  onMonitorEvents(ls1, Tail(evs), obj)

----------------------------------------------------------------------------
(* Construction *)

NoTimes == [first |-> 0, started |-> 0, paused |-> 0]

(* no call of processSpeechTurn; otherwise p, the duration it computed and *)
(* the concatenation of the buffers it was given                           *)
NoFinalize == [p |-> "none", dur |-> 0, buf |-> NoBuf]

(* The frames the detector received last for a participant: speech and    *)
(* silence count the frames of that kind at the end of the sequence of all *)
(* frames, speechHeld and silenceHeld at the end of the sequence with the  *)
(* ambiguous frames left out; each is counted up to the required number.   *)
NoRuns == [speech |-> 0, silence |-> 0, speechHeld |-> 0, silenceHeld |-> 0]

UpTo(n, cap) == IF n < cap THEN n ELSE cap

NextRuns(r, rms) ==
  IF rms > config.speechThreshold
    THEN [speech |-> UpTo(r.speech + 1, config.speechFramesRequired),
          silence |-> 0,
          speechHeld |-> UpTo(r.speechHeld + 1, config.speechFramesRequired),
          silenceHeld |-> 0]
  ELSE IF rms < config.silenceThreshold
    THEN [speech |-> 0,
          silence |-> UpTo(r.silence + 1, config.silenceFramesRequired),
          speechHeld |-> 0,
          silenceHeld |-> UpTo(r.silenceHeld + 1, config.silenceFramesRequired)]
  ELSE [r EXCEPT !.speech = 0, !.silence = 0]

(* no conversion routine called yet *)
(* autoJoinRoom calls: one per token request, started by the request's    *)
(* delayed timer.  Room object 0 is the one of the connection the service  *)
(* starts with; the Room a call creates carries the call's number.         *)
MaxCalls == 2
Calls == 1..MaxCalls
NoJoin == [pc |-> [c \in Calls |-> "idle"], mapped |-> {0}, open |-> {0},
           connectedRooms |-> TRUE]

NoCall == [fn |-> "none", input |-> <<>>, fromRate |-> 0, toRate |-> 0,
           channels |-> 0, byteOrder |-> "LE", threw |-> FALSE, output |-> <<>>]

(* The service is constructed and has joined the room (autoJoinRoom has    *)
(* completed): room, monitor and agent listeners are in place.             *)
ServiceStarted(enableTurnDetection) ==
  /\ config = BaseConfig
  /\ now = 0
  /\ frameSeq = [p \in Participants |-> 0]
  /\ streams = {}
  /\ participantStates = EmptyMap
  /\ debounceTimers = EmptyMap
  /\ processingFlags = EmptyMap
  /\ timerHeap = {}
  /\ monitorStates = EmptyMap
  /\ volumeBuffers = EmptyMap
  /\ isMonitoring = FALSE
  /\ rooms = TRUE
  /\ audioMonitors = enableTurnDetection
  /\ userStates = EmptyMap
  /\ inflight = {}
  /\ agentState = "listening"
  /\ activeAudioPlayers = {}
  /\ responses = {}
  /\ emitted = <<>>
  /\ lastAct = [kind |-> "init", p |-> "none"]
  /\ sinceStart = [p \in Participants |-> "none"]
  /\ freshRun = [p \in Participants |-> 0]
  /\ stoppedTimers = [p \in Participants |-> 0]
  /\ supersededTimers = [p \in Participants |-> 0]
  /\ skipped = [p \in Participants |-> {}]
  /\ handed = [p \in Participants |-> {}]
  /\ runStartAt = [p \in Participants |-> 0]
  /\ turnTimes = [p \in Participants |-> NoTimes]
  /\ finalTimes = NoTimes
  /\ finalized = NoFinalize
  /\ audioCall = NoCall
  /\ runs = [p \in Participants |-> NoRuns]
  /\ turnFrom = [p \in Participants |-> 0]
  /\ join = NoJoin
  /\ direct = [turnDetection |-> enableTurnDetection,
               callbacks |-> IF enableTurnDetection THEN 0 ELSE 1,
               buffers |-> EmptyMap, timers |-> <<>>, turns |-> <<>>]

(* LIVEKIT_ENABLE_TURN_DETECTION is not 'false': the default *)
Init == ServiceStarted(TRUE)

(* LIVEKIT_ENABLE_TURN_DETECTION=false: no monitor; setupAgentBehavior has *)
(* subscribed its audio callback                                           *)
InitDirect == ServiceStarted(FALSE)

Detector == [states |-> participantStates, timers |-> debounceTimers,
             flags |-> processingFlags, heap |-> timerHeap, evs |-> <<>>]
Monitor == [states |-> monitorStates, volumes |-> volumeBuffers,
            isMonitoring |-> isMonitoring, evs |-> <<>>]
Service == [userStates |-> userStates, inflight |-> inflight,
            agentState |-> agentState, rooms |-> rooms, skipped |-> skipped,
            handed |-> handed, players |-> activeAudioPlayers, evs |-> <<>>]

SetDetector(w) ==
  /\ participantStates' = w.states
  /\ debounceTimers' = w.timers
  /\ processingFlags' = w.flags
  /\ timerHeap' = w.heap
SetMonitor(am) ==
  /\ monitorStates' = am.states
  /\ volumeBuffers' = am.volumes
  /\ isMonitoring' = am.isMonitoring
SetService(ls) ==
  /\ userStates' = ls.userStates
  /\ inflight' = ls.inflight
  /\ agentState' = ls.agentState
  /\ skipped' = ls.skipped
  /\ handed' = ls.handed
  /\ activeAudioPlayers' = ls.players

HasEvent(evs, type, p) == \E i \in 1..Len(evs) : evs[i].type = type /\ evs[i].p = p

(* what the detector's step did to p's turn *)
TurnHistory(p, w, wasSpeaking) ==
  IF HasEvent(w.evs, "speechStarted", p) THEN "open"
  ELSE IF HasEvent(w.evs, "speechTurn", p) THEN "ended"
  ELSE IF ~Has(w.states, p) THEN "none"
  ELSE IF wasSpeaking /\ ~w.states[p].isSpeaking
    THEN (IF Has(w.timers, p) THEN "paused" ELSE "discarded")
  ELSE sinceStart[p]

----------------------------------------------------------------------------
(* Actions *)

detectorVars == <<participantStates, debounceTimers, processingFlags, timerHeap>>
monitorVars == <<monitorStates, volumeBuffers, isMonitoring>>
serviceVars == <<userStates, inflight, agentState, skipped, handed,
                 activeAudioPlayers>>
turnHistory == <<sinceStart, freshRun, runStartAt, turnTimes, runs, turnFrom>>

Tick ==
  /\ now < MaxTime
  /\ now' = now + 1
  /\ emitted' = <<>>
  /\ finalTimes' = NoTimes
  /\ finalized' = NoFinalize
  /\ lastAct' = [kind |-> "tick", p |-> "none"]
  /\ UNCHANGED <<config, direct, audioCall, join, frameSeq, streams, detectorVars, monitorVars,
                 serviceVars, rooms, audioMonitors, turnHistory,
                 stoppedTimers, supersededTimers, responses>>

(* RoomEvent.TrackSubscribed -> handleAudioTrack *)
TrackSubscribed(p) ==
  /\ rooms
  /\ SetMonitor(IF audioMonitors THEN startMonitoring(Monitor, p) ELSE Monitor)
  /\ streams' = streams \cup {p}
  /\ emitted' = <<>>
  /\ finalTimes' = NoTimes
  /\ finalized' = NoFinalize
  /\ lastAct' = [kind |-> "subscribed", p |-> p]
  /\ UNCHANGED <<config, direct, audioCall, join, now, frameSeq, detectorVars, serviceVars, rooms,
                 audioMonitors, turnHistory, stoppedTimers, supersededTimers,
                 responses>>

(* One iteration of processAudioStream's loop with turn detection enabled: *)
(* AudioMonitor.processAudioFrame, VoiceDetection.processAudioFrame and    *)
(* every listener they reach.                                              *)
AudioFrame(p, rms, len, head) ==
  /\ p \in streams
  /\ frameSeq[p] < MaxFrames
  /\ LET frame == [seq |-> frameSeq[p] + 1, len |-> len, head |-> head, rms |-> rms]
         accept == audioMonitors /\ isMonitoring /\ Has(monitorStates, p)
         hadState == Has(participantStates, p)
         wasSpeaking == hadState /\ participantStates[p].isSpeaking
         am1 == checkForInterruption(updateVolumeBuffer(Monitor, p, rms), p)
         w == vdProcessAudioFrame(Detector, p, frame, now)
         am2 == onDetectorEvents(am1, w.evs)
         am3 == [am2 EXCEPT !.evs = Append(@, Ev("volumeDetected", p, NoBuf, rms, 0))]
         ls == onMonitorEvents(Service, am3.evs, frame.seq)
         started == HasEvent(w.evs, "speechStarted", p)
         ended == wasSpeaking /\ ~w.states[p].isSpeaking /\ ~Has(w.timers, p)
         seen == manageBufferSize(
                   [participantStates[p] EXCEPT !.buffers = Append(@, Stored(frame)),
                                                !.totalLength = @ + frame.len])
         run0 == IF hadState THEN freshRun[p] ELSE 0
         inRun == rms > config.speechThreshold /\ ~wasSpeaking
         resumed == /\ Has(debounceTimers, p)
                    /\ rms > config.speechThreshold
                    /\ participantStates[p].speechFrameCount + 1
                         >= config.speechFramesRequired
         runFirst == IF ~hadState \/ participantStates[p].speechFrameCount = 0
                       THEN now ELSE runStartAt[p]
     IN  /\ frameSeq' = [frameSeq EXCEPT ![p] = frame.seq]
         /\ lastAct' = [kind |-> IF accept THEN "frame" ELSE "ignored", p |-> p]
         /\ IF accept
              THEN /\ SetDetector(w)
                   /\ SetMonitor(am3)
                   /\ SetService(ls)
                   /\ emitted' = w.evs \o am3.evs \o ls.evs
                   /\ sinceStart' = [sinceStart EXCEPT ![p] = TurnHistory(p, w, wasSpeaking)]
                   /\ runs' = [runs EXCEPT ![p] = NextRuns(@, rms)]
                   /\ turnFrom' = [turnFrom EXCEPT ![p] =
                        IF started /\ ~Has(debounceTimers, p) THEN frame.seq ELSE @]
                   /\ freshRun' = [freshRun EXCEPT ![p] =
                        IF rms > config.speechThreshold /\ run0 >= 0
                           /\ run0 < config.speechFramesRequired
                          THEN run0 + 1 ELSE -1]
                   /\ supersededTimers' = [supersededTimers EXCEPT ![p] =
                        IF resumed THEN debounceTimers[p] ELSE @]
                   /\ runStartAt' = [runStartAt EXCEPT ![p] =
                        IF inRun /\ ~started THEN runFirst ELSE 0]
                   /\ turnTimes' = [turnTimes EXCEPT ![p] =
                        IF started
                          THEN [first |-> runFirst, started |-> now, paused |-> 0]
                        ELSE IF ended THEN NoTimes
                        ELSE IF wasSpeaking /\ Has(w.timers, p)
                          THEN [@ EXCEPT !.paused = now]
                        ELSE @]
                   /\ finalTimes' = IF HasEvent(w.evs, "speechTurn", p)
                                      THEN turnTimes[p] ELSE NoTimes
                   /\ finalized' = IF ended
                                      THEN [p |-> p,
                                            dur |-> now - participantStates[p].speechStartTime,
                                            buf |-> BufferConcat(seen.buffers)]
                                      ELSE NoFinalize
              ELSE /\ emitted' = <<>>
                   /\ finalTimes' = NoTimes
                   /\ finalized' = NoFinalize
                   /\ UNCHANGED <<detectorVars, monitorVars, serviceVars,
                                  turnHistory, supersededTimers>>
  /\ UNCHANGED <<config, direct, audioCall, join, now, streams, rooms, audioMonitors, stoppedTimers,
                 responses>>

(* A pending debounce timer fires, at its due time or later *)
DebounceTimerFires(tm) ==
  /\ tm \in timerHeap
  /\ tm.due <= now
  /\ LET w == debounceCallback(Detector, tm, now)
         am == onDetectorEvents(Monitor, w.evs)
         ls == onMonitorEvents(Service, am.evs, 0)
         given == IF tm.orphan # <<>> THEN tm.orphan[1] ELSE participantStates[tm.p]
     IN  /\ SetDetector(w)
         /\ SetMonitor(am)
         /\ SetService(ls)
         /\ emitted' = w.evs \o am.evs \o ls.evs
         /\ sinceStart' = [sinceStart EXCEPT ![tm.p] =
              IF HasEvent(w.evs, "speechTurn", tm.p) THEN "ended" ELSE "discarded"]
         /\ finalTimes' = turnTimes[tm.p]
         /\ finalized' = [p |-> tm.p, dur |-> now - given.speechStartTime,
                          buf |-> BufferConcat(given.buffers)]
  /\ turnTimes' = [turnTimes EXCEPT ![tm.p] = NoTimes]
  /\ lastAct' = [kind |-> "timer", p |-> tm.p]
  /\ UNCHANGED <<config, direct, audioCall, join, runs, turnFrom, now, frameSeq, streams, rooms, audioMonitors, freshRun,
                 stoppedTimers, supersededTimers, runStartAt, responses>>

(* RoomEvent.ParticipantDisconnected: stopMonitoring, userStates.delete *)
ParticipantDisconnected(p) ==
  /\ rooms
  /\ p \in streams
  /\ IF audioMonitors
       THEN /\ SetMonitor(stopMonitoring(Monitor, p))
            /\ SetDetector(vdCleanup(Detector, p))
            /\ stoppedTimers' = [stoppedTimers EXCEPT ![p] =
                 IF Has(debounceTimers, p) THEN debounceTimers[p] ELSE @]
            /\ sinceStart' = [sinceStart EXCEPT ![p] = "none"]
            /\ freshRun' = [freshRun EXCEPT ![p] = 0]
            /\ runStartAt' = [runStartAt EXCEPT ![p] = 0]
            /\ turnTimes' = [turnTimes EXCEPT ![p] = NoTimes]
            /\ runs' = [runs EXCEPT ![p] = NoRuns]
            /\ turnFrom' = [turnFrom EXCEPT ![p] = 0]
       ELSE UNCHANGED <<detectorVars, monitorVars, stoppedTimers, turnHistory>>
  /\ userStates' = Del(userStates, p)
  /\ emitted' = <<>>
  /\ finalTimes' = NoTimes
  /\ finalized' = NoFinalize
  /\ lastAct' = [kind |-> "disconnected", p |-> p]
  /\ UNCHANGED <<config, direct, audioCall, join, now, frameSeq, streams, rooms, audioMonitors, inflight,
                 agentState, supersededTimers, skipped, handed,
                 activeAudioPlayers, responses>>

(* The rest of LiveKitService.processSpeechTurn, after transcribeAudio     *)
(* returns: no text ("none"), or text that is sent and handled, to which   *)
(* the runtime does not reply ("text") or replies through the callback of  *)
(* handleMessage ("reply"), or text that is sent and whose handling throws *)
(* inside handleMessage ("failed").                                        *)
TranscriptionDone(f, outcome) ==
  /\ f \in inflight
  /\ inflight' = inflight \ {f}
  /\ agentState' = IF outcome \in {"none", "failed"} THEN "listening"
                   ELSE "thinking"
  /\ userStates' = IF Has(userStates, f.p) /\ userStates[f.p].obj = f.obj
                     THEN [userStates EXCEPT ![f.p].isProcessing = FALSE]
                     ELSE userStates
  /\ responses' = IF outcome = "reply" THEN responses \cup {f.p} ELSE responses
  /\ emitted' = IF outcome = "none" THEN <<>>
                ELSE <<Ev("transcription", f.p,
                          [frames |-> f.frames, len |-> 0, head |-> "pcm"], 0, 0)>>
  /\ finalTimes' = NoTimes
  /\ finalized' = NoFinalize
  /\ lastAct' = [kind |-> IF outcome = "none" THEN "noText"
                           ELSE IF outcome = "failed" THEN "handlingFailed"
                           ELSE "transcribed",
                  p |-> f.p]
  /\ UNCHANGED <<config, direct, audioCall, join, now, frameSeq, streams, detectorVars, monitorVars,
                 rooms, audioMonitors, turnHistory, stoppedTimers,
                 supersededTimers, skipped, handed, activeAudioPlayers>>

(* leaveRoom (disconnect, destroy) and the room's Disconnected event: the  *)
(* room, its audio manager and its monitor leave the service's maps.       *)
RoomGone(kind) ==
  /\ rooms
  /\ rooms' = FALSE
  /\ audioMonitors' = FALSE
  /\ agentState' = "idle"
  /\ streams' = {}
  /\ emitted' = <<>>
  /\ finalTimes' = NoTimes
  /\ finalized' = NoFinalize
  /\ lastAct' = [kind |-> kind, p |-> "none"]
  /\ join' = [join EXCEPT !.mapped = {}, !.open = @ \ join.mapped,
                          !.connectedRooms = FALSE]
  /\ UNCHANGED <<config, direct, audioCall, now, frameSeq, detectorVars, monitorVars, userStates,
                 inflight, skipped, handed, turnHistory, stoppedTimers,
                 supersededTimers, activeAudioPlayers, responses>>

LeaveRoom == RoomGone("leaveRoom")
RoomDisconnected == RoomGone("roomDisconnected")

----------------------------------------------------------------------------
(* One participant, frames of one size, raw PCM *)

Active == {"p1"}

Next ==
  \/ Tick
  \/ \E p \in Active : TrackSubscribed(p)
  \/ \E p \in Active, rms \in RmsValues : AudioFrame(p, rms, FrameBytes, "pcm")
  \/ \E tm \in timerHeap : DebounceTimerFires(tm)
  \/ \E p \in Active : ParticipantDisconnected(p)
  \/ \E f \in inflight, outcome \in {"none", "text"} : TranscriptionDone(f, outcome)
  \/ LeaveRoom
  \/ RoomDisconnected

Spec == Init /\ [][Next]_vars

----------------------------------------------------------------------------
(* Replies: the runtime answers turns and the service speaks the answers   *)

(* speakResponseToRoom(text, participantId), up to the registration of the *)
(* player once publishAudio has returned                                   *)
ResponseSpoken(p) ==
  /\ p \in responses
  /\ responses' = responses \ {p}
  /\ activeAudioPlayers' = IF rooms THEN activeAudioPlayers \cup {p}
                           ELSE activeAudioPlayers
  /\ agentState' = IF rooms THEN "speaking" ELSE "listening"
  /\ emitted' = <<>>
  /\ finalTimes' = NoTimes
  /\ finalized' = NoFinalize
  /\ lastAct' = [kind |-> "spoken", p |-> p]
  /\ UNCHANGED <<config, direct, audioCall, join, now, frameSeq, streams, detectorVars, monitorVars,
                 rooms, audioMonitors, userStates, inflight, skipped, handed,
                 turnHistory, stoppedTimers, supersededTimers>>

(* the timer speakResponseToRoom sets for the estimated end of the audio *)
PlaybackFinished(p) ==
  /\ p \in activeAudioPlayers
  /\ activeAudioPlayers' = activeAudioPlayers \ {p}
  /\ agentState' = "listening"
  /\ emitted' = <<>>
  /\ finalTimes' = NoTimes
  /\ finalized' = NoFinalize
  /\ lastAct' = [kind |-> "played", p |-> p]
  /\ UNCHANGED <<config, direct, audioCall, join, now, frameSeq, streams, detectorVars, monitorVars,
                 rooms, audioMonitors, userStates, inflight, skipped, handed,
                 turnHistory, stoppedTimers, supersededTimers, responses>>

MaxReplyFrames == 6

ReplyFrame(p, rms) ==
  /\ frameSeq[p] < MaxReplyFrames
  /\ AudioFrame(p, rms, FrameBytes, "pcm")

NextReplies ==
  \/ Tick
  \/ \E p \in Active : TrackSubscribed(p)
  \/ \E p \in Active, rms \in {RmsSilence, RmsSpeech} : ReplyFrame(p, rms)
  \/ \E tm \in timerHeap : DebounceTimerFires(tm)
  \/ \E f \in inflight, outcome \in {"none", "text", "reply", "failed"} :
       TranscriptionDone(f, outcome)
  \/ \E p \in Active : ResponseSpoken(p)
  \/ \E p \in Active : PlaybackFinished(p)

SpecReplies == Init /\ [][NextReplies]_vars

----------------------------------------------------------------------------
(* Large frames: one participant, frames of several MiB, time standing     *)
(* still, so that the memory ceiling of the buffers is reached.            *)

MaxBigFrames == 4
MiB == 1024 * 1024
BigLens == {4 * MiB, 6 * MiB, 11 * MiB}

BigFrame(p, rms, len) ==
  /\ frameSeq[p] < MaxBigFrames
  /\ AudioFrame(p, rms, len, "pcm")

NextBuffers ==
  \/ \E p \in Active : TrackSubscribed(p)
  \/ \E p \in Active, rms \in {RmsSilence, RmsSpeech}, len \in BigLens :
       BigFrame(p, rms, len)
  \/ \E p \in Active : ParticipantDisconnected(p)

SpecBuffers == Init /\ [][NextBuffers]_vars

----------------------------------------------------------------------------
(* Frames with and without a container header: one participant, frames   *)
(* whose first bytes are raw samples, a RIFF/WAVE header, or a RIFF header *)
(* of another format.                                                      *)

MaxHeadFrames == 5
Heads == {"pcm", "RIFF/WAVE", "RIFF/other"}

HeadFrame(p, rms, head) ==
  /\ frameSeq[p] < MaxHeadFrames
  /\ AudioFrame(p, rms, FrameBytes, head)

NextFormats ==
  \/ Tick
  \/ \E p \in Active : TrackSubscribed(p)
  \/ \E p \in Active, rms \in {RmsSilence, RmsSpeech}, head \in Heads :
       HeadFrame(p, rms, head)
  \/ \E tm \in timerHeap : DebounceTimerFires(tm)

SpecFormats == Init /\ [][NextFormats]_vars

----------------------------------------------------------------------------
(* Two participants in the room *)

MaxPairFrames == 4
MaxPairTime == 1

PairTick ==
  /\ now < MaxPairTime
  /\ Tick

PairFrame(p, rms) ==
  /\ frameSeq[p] < MaxPairFrames
  /\ AudioFrame(p, rms, FrameBytes, "pcm")

NextPair ==
  \/ PairTick
  \/ \E p \in Participants : TrackSubscribed(p)
  \/ \E p \in Participants, rms \in {RmsSilence, RmsSpeech} : PairFrame(p, rms)
  \/ \E tm \in timerHeap : DebounceTimerFires(tm)
  \/ \E p \in Participants : ParticipantDisconnected(p)

SpecPair == Init /\ [][NextPair]_vars

----------------------------------------------------------------------------
(* Buffers of bytes (Node Buffer): sequences of 0..255, offsets from 0 *)

Int16(u) == IF u >= 32768 THEN u - 65536 ELSE u

(* Buffer.readInt16LE(offset) throws a RangeError unless the two bytes at  *)
(* offset lie inside the buffer                                            *)
InRange(buf, offset) == offset >= 0 /\ offset + 2 <= Len(buf)
readInt16LE(buf, offset) == Int16(buf[offset + 1] + 256 * buf[offset + 2])

(* floor of the square root *)
ISqrt(n) == CHOOSE r \in 0..1000 : r * r <= n /\ (r + 1) * (r + 1) > n

(* the loop of calculateRMS: for (i = 0; i < length; i += 2), each sample  *)
(* squared                                                                 *)
RECURSIVE SumSquares(_, _)
SumSquares(buf, i) ==
  IF i >= Len(buf) THEN 0
  ELSE readInt16LE(buf, i) * readInt16LE(buf, i) + SumSquares(buf, i + 2)

(* sqrt(sumSquares / sampleCount) of samples normalised by 32768, in       *)
(* thousandths rounded down: 10^6 / 2^30 = 15625 / (2^14 * 2^10), the sum  *)
(* of squares taken in units of 2^14.                                      *)
Thousandths(sumSquares, sampleCount) ==
  ISqrt((15625 * (sumSquares \div 16384)) \div (sampleCount * 1024))

(* VoiceDetection.calculateRMS: threw when a readInt16LE of the loop is    *)
(* out of range, else the value v                                          *)
calculateRMS(buffer) ==
  IF Len(buffer) < 2 THEN [threw |-> FALSE, v |-> 0]
  ELSE IF \E i \in 0..(Len(buffer) - 1) : i % 2 = 0 /\ ~InRange(buffer, i)
    THEN [threw |-> TRUE, v |-> 0]
  ELSE [threw |-> FALSE,
        v |-> Thousandths(SumSquares(buffer, 0), Len(buffer) \div 2)]

(* AudioMonitor.calculateVolume: the same computation *)
calculateVolume(buffer) == calculateRMS(buffer)

----------------------------------------------------------------------------
(* Frames of bytes: one participant, frames of every short length, the     *)
(* loudness computed from the bytes.  An exception thrown while a frame is *)
(* processed leaves the for-await loop of processAudioStream through its   *)
(* catch: the stream is read no further.                                   *)

MaxByteLen == 3
MaxByteFrames == 3
Bytes == {0, 8, 192}
ByteBuffers == UNION {[1..k -> Bytes] : k \in 0..MaxByteLen}

ByteFrame(p, buffer) ==
  /\ frameSeq[p] < MaxByteFrames
  /\ IF audioMonitors /\ isMonitoring /\ Has(monitorStates, p)
        /\ calculateVolume(buffer).threw
       THEN /\ p \in streams
            /\ streams' = streams \ {p}
            /\ frameSeq' = [frameSeq EXCEPT ![p] = @ + 1]
            /\ emitted' = <<>>
            /\ finalTimes' = NoTimes
            /\ finalized' = NoFinalize
            /\ lastAct' = [kind |-> "frameError", p |-> p]
            /\ UNCHANGED <<config, direct, audioCall, join, now, detectorVars, monitorVars, serviceVars,
                           rooms, audioMonitors, turnHistory, stoppedTimers,
                           supersededTimers, responses>>
       ELSE AudioFrame(p, calculateVolume(buffer).v, Len(buffer), "pcm")

NextBytes ==
  \/ Tick
  \/ \E p \in Active : TrackSubscribed(p)
  \/ \E p \in Active, buffer \in ByteBuffers : ByteFrame(p, buffer)

SpecBytes == Init /\ [][NextBytes]_vars

----------------------------------------------------------------------------
(* Audio conversion for transcription: resampleAudio and convertPCMToWAV,  *)
(* on buffers of bytes.  fromRate / toRate is kept as an exact fraction;   *)
(* the rates of the model are those whose ratio a double holds exactly.    *)

RECURSIVE GCD(_, _)
GCD(a, b) == IF b = 0 THEN a ELSE GCD(b, a % b)

(* Buffer.writeInt16LE, writeUInt16LE, writeUInt32LE: the bytes written *)
writeInt16LE(v) ==
  LET u == IF v < 0 THEN v + 65536 ELSE v IN <<u % 256, u \div 256>>
writeUInt16LE(v) == <<v % 256, (v \div 256) % 256>>
writeUInt32LE(v) ==
  <<v % 256, (v \div 256) % 256, (v \div 65536) % 256, (v \div 16777216) % 256>>

(* Math.round of x / d for d > 0: the nearest integer, a tie going up *)
RoundDiv(x, d) == (2 * x + d) \div (2 * d)

RECURSIVE Flatten(_)
Flatten(ss) == IF ss = <<>> THEN <<>> ELSE Head(ss) \o Flatten(Tail(ss))

(* one output sample taken from the sample before the position, without   *)
(* interpolation                                                           *)
resampleStepNearest(inputBuffer, num, den, i) ==
  LET srcIndexInt == (i * num) \div den
      last == Len(inputBuffer) - 2
  IN  IF 2 * srcIndexInt < Len(inputBuffer) - 2
        THEN [threw |-> FALSE,
              bytes |-> writeInt16LE(readInt16LE(inputBuffer, srcIndexInt * 2))]
        ELSE [threw |-> FALSE,
              bytes |-> writeInt16LE(readInt16LE(inputBuffer, last))]

(* one output sample of resampleAudio: srcIndex = i * num / den; threw if  *)
(* a read is out of range                                                  *)
resampleStep(inputBuffer, num, den, i) ==
  LET srcIndexInt == (i * num) \div den
      frac == (i * num) % den
      last == Len(inputBuffer) - 2
  IN  IF 2 * srcIndexInt < Len(inputBuffer) - 2
        THEN IF ~InRange(inputBuffer, (srcIndexInt + 1) * 2)
               THEN [threw |-> TRUE, bytes |-> <<>>]
               ELSE LET sample1 == readInt16LE(inputBuffer, srcIndexInt * 2)
                        sample2 == readInt16LE(inputBuffer, (srcIndexInt + 1) * 2)
                    IN  [threw |-> FALSE,
                         bytes |-> writeInt16LE(
                           RoundDiv(sample1 * (den - frac) + sample2 * frac, den))]
        ELSE IF ~InRange(inputBuffer, last)
               THEN [threw |-> TRUE, bytes |-> <<>>]
               ELSE [threw |-> FALSE,
                     bytes |-> writeInt16LE(readInt16LE(inputBuffer, last))]

(* LiveKitService.resampleAudio: outputSamples = floor((length / 2) / ratio) *)
resampleAudio(inputBuffer, fromRate, toRate) ==
  IF fromRate = toRate THEN [threw |-> FALSE, buf |-> inputBuffer]
  ELSE LET g == GCD(fromRate, toRate)
           num == fromRate \div g
           den == toRate \div g
           outputSamples == (Len(inputBuffer) * den) \div (2 * num)
           steps == [i \in 1..outputSamples |->
                       resampleStep(inputBuffer, num, den, i - 1)]
       IN  IF \E i \in 1..outputSamples : steps[i].threw
             THEN [threw |-> TRUE, buf |-> <<>>]
             ELSE [threw |-> FALSE,
                   buf |-> Flatten([i \in 1..outputSamples |-> steps[i].bytes])]

(* the ASCII codes header.write puts down *)
Ascii(tag) ==
  CASE tag = "RIFF" -> <<82, 73, 70, 70>>
    [] tag = "WAVE" -> <<87, 65, 86, 69>>
    [] tag = "fmt " -> <<102, 109, 116, 32>>
    [] tag = "data" -> <<100, 97, 116, 97>>

(* the byte swap of the big-endian branch; a byte read past the end is     *)
(* undefined and is stored as 0, a byte written past the end is dropped    *)
SwapBytes(pcmBuffer) ==
  [k \in 1..Len(pcmBuffer) |->
     IF k % 2 = 1
       THEN (IF k + 1 <= Len(pcmBuffer) THEN pcmBuffer[k + 1] ELSE 0)
       ELSE pcmBuffer[k - 1]]

WavHeaderBytes == 44
WavFmtChunkBytes == 16
WavFormatPCM == 1

(* the header with the size of the whole file put in the file-size field *)
wavHeaderWholeFile(dataSize, sampleRate, channels, bitsPerSample) ==
  LET byteRate == sampleRate * channels * (bitsPerSample \div 8)
      blockAlign == channels * (bitsPerSample \div 8)
  IN  Ascii("RIFF") \o writeUInt32LE(WavHeaderBytes + dataSize) \o Ascii("WAVE")
        \o Ascii("fmt ") \o writeUInt32LE(WavFmtChunkBytes)
        \o writeUInt16LE(WavFormatPCM) \o writeUInt16LE(channels)
        \o writeUInt32LE(sampleRate) \o writeUInt32LE(byteRate)
        \o writeUInt16LE(blockAlign) \o writeUInt16LE(bitsPerSample)
        \o Ascii("data") \o writeUInt32LE(dataSize)

(* the 44 bytes convertPCMToWAV writes before the data *)
wavHeader(dataSize, sampleRate, channels, bitsPerSample) ==
  LET byteRate == sampleRate * channels * (bitsPerSample \div 8)
      blockAlign == channels * (bitsPerSample \div 8)
      fileSize == 36 + dataSize
  IN  Ascii("RIFF") \o writeUInt32LE(fileSize) \o Ascii("WAVE")
        \o Ascii("fmt ") \o writeUInt32LE(WavFmtChunkBytes)
        \o writeUInt16LE(WavFormatPCM) \o writeUInt16LE(channels)
        \o writeUInt32LE(sampleRate) \o writeUInt32LE(byteRate)
        \o writeUInt16LE(blockAlign) \o writeUInt16LE(bitsPerSample)
        \o Ascii("data") \o writeUInt32LE(dataSize)

(* LiveKitService.convertPCMToWAV *)
convertPCMToWAV(pcmBuffer, sampleRate, channels, bitsPerSample, byteOrder) ==
  LET processedBuffer == IF byteOrder = "BE" THEN SwapBytes(pcmBuffer)
                         ELSE pcmBuffer
  IN  wavHeader(Len(processedBuffer), sampleRate, channels, bitsPerSample)
        \o processedBuffer

(* Inputs: buffers of whole samples, as Buffer.from(Int16Array) gives them *)
MaxSamples == 6
SampleValues == {-32768, -5, 0, 32767}
SampleSeqs == UNION {[1..k -> SampleValues] : k \in 0..MaxSamples}
BufferFrom(samples) == Flatten([i \in 1..Len(samples) |-> writeInt16LE(samples[i])])
RatePairs == {<<48000, 16000>>, <<24000, 16000>>, <<16000, 32000>>, <<16000, 16000>>}
WavRates == {16000, 48000}
WavChannels == {1, 2}
BitsPerSample == 16

(* The routines are pure: each behaviour makes one call *)
Converted(call) ==
  /\ audioCall = NoCall
  /\ audioCall' = call
  /\ emitted' = <<>>
  /\ finalTimes' = NoTimes
  /\ finalized' = NoFinalize
  /\ lastAct' = [kind |-> call.fn, p |-> "none"]
  /\ UNCHANGED <<config, direct, join, now, frameSeq, streams, detectorVars, monitorVars,
                 serviceVars, rooms, audioMonitors, turnHistory, stoppedTimers,
                 supersededTimers, responses>>

ResampleAudio(samples, fromRate, toRate) ==
  LET input == BufferFrom(samples)
      r == resampleAudio(input, fromRate, toRate)
  IN  Converted([fn |-> "resampleAudio", input |-> input, fromRate |-> fromRate,
                 toRate |-> toRate, channels |-> 1, byteOrder |-> "LE",
                 threw |-> r.threw, output |-> r.buf])

ConvertPCMToWAV(samples, sampleRate, channels, byteOrder) ==
  LET input == BufferFrom(samples)
  IN  Converted([fn |-> "convertPCMToWAV", input |-> input, fromRate |-> sampleRate,
                 toRate |-> sampleRate, channels |-> channels,
                 byteOrder |-> byteOrder, threw |-> FALSE,
                 output |-> convertPCMToWAV(input, sampleRate, channels,
                                            BitsPerSample, byteOrder)])

NextAudio ==
  \/ /\ audioCall = NoCall
     /\ \E samples \in SampleSeqs, rates \in RatePairs :
          ResampleAudio(samples, rates[1], rates[2])
  \/ /\ audioCall = NoCall
     /\ \E samples \in SampleSeqs, rate \in WavRates, ch \in WavChannels,
           order \in {"LE", "BE"} : ConvertPCMToWAV(samples, rate, ch, order)

SpecAudio == Init /\ [][NextAudio]_vars

----------------------------------------------------------------------------
(* Fair scheduling.  The clock advances and a due timer's callback is run  *)
(* by the event loop; nothing obliges a participant to send a frame.       *)

MaxLiveFrames == 5

LiveFrame(p, rms) ==
  /\ frameSeq[p] < MaxLiveFrames
  /\ AudioFrame(p, rms, FrameBytes, "pcm")

TimerFires == \E tm \in timerHeap : DebounceTimerFires(tm)

NextLive ==
  \/ Tick
  \/ \E p \in Active : TrackSubscribed(p)
  \/ \E p \in Active, rms \in RmsValues : LiveFrame(p, rms)
  \/ TimerFires
  \/ \E p \in Active : ParticipantDisconnected(p)

(* A debounce timer whose delay has elapsed (its callback is enabled) *)
TimerDue == \E tm \in timerHeap : tm.due <= now

(* Weak fairness of the clock and of the due timers' callbacks; the latter *)
(* is written with its enabling condition TimerDue.                        *)
SpecLive ==
  /\ Init /\ [][NextLive]_vars
  /\ WF_vars(Tick)
  /\ ([]<>(~TimerDue) \/ []<><<TimerFires>>_vars)

----------------------------------------------------------------------------
(* Agent auto-join.  Each token request schedules autoJoinRoom for the     *)
(* room; the call runs in pieces separated by its awaits, and pieces of    *)
(* different calls interleave.  No participant is subscribed here, so the  *)
(* monitor a connection installs starts, and stays, without participants.  *)

JoinPc(c, from, to) ==
  /\ join.pc[c] = from
  /\ emitted' = <<>>
  /\ finalTimes' = NoTimes
  /\ finalized' = NoFinalize
  /\ lastAct' = [kind |-> to, p |-> "none"]
  /\ UNCHANGED <<config, audioCall, now, frameSeq, streams, detectorVars,
                 userStates, inflight, skipped, handed, turnHistory, stoppedTimers,
                 supersededTimers, activeAudioPlayers, responses>>

(* autoJoinRoom up to its first await (generateAgentToken) *)
AutoJoinRoom(c) ==
  /\ JoinPc(c, "idle", IF join.connectedRooms THEN "returned" ELSE "token")
  /\ join' = [join EXCEPT !.pc[c] = IF join.connectedRooms THEN "returned" ELSE "token"]
  /\ UNCHANGED <<rooms, audioMonitors, agentState, monitorVars, direct>>

(* connect up to its first await (generateToken), or its early return *)
Connect(c) ==
  /\ JoinPc(c, "token", IF rooms THEN "joined" ELSE "connectToken")
  /\ join' = [join EXCEPT !.pc[c] = IF rooms THEN "joined" ELSE "connectToken"]
  /\ UNCHANGED <<rooms, audioMonitors, agentState, monitorVars, direct>>

(* new Room(), setupRoomEventHandlers, up to await room.connect *)
RoomCreated(c) ==
  /\ JoinPc(c, "connectToken", "connecting")
  /\ join' = [join EXCEPT !.pc[c] = "connecting"]
  /\ UNCHANGED <<rooms, audioMonitors, agentState, monitorVars, direct>>

(* room.connect resolved: rooms.set, new AudioManager, up to await initialize *)
RoomConnected(c) ==
  /\ JoinPc(c, "connecting", "initializing")
  /\ join' = [join EXCEPT !.pc[c] = "initializing", !.mapped = {c},
                          !.open = @ \cup {c}]
  /\ rooms' = TRUE
  /\ UNCHANGED <<audioMonitors, agentState, monitorVars, direct>>

(* audioManagers.set, initializeAudioMonitor: a new monitor in the map *)
ManagerInitialized(c) ==
  /\ JoinPc(c, "initializing", "joined")
  /\ join' = [join EXCEPT !.pc[c] = "joined"]
  /\ IF direct.turnDetection
       THEN /\ audioMonitors' = TRUE
            /\ monitorStates' = EmptyMap
            /\ volumeBuffers' = EmptyMap
            /\ isMonitoring' = FALSE
       ELSE UNCHANGED <<audioMonitors, monitorVars>>
  /\ UNCHANGED <<rooms, agentState, direct>>

(* autoJoinRoom after await connect: connectedRooms.add, setupAgentBehavior, *)
(* setAgentState('listening')                                                *)
Joined(c) ==
  /\ JoinPc(c, "joined", "done")
  /\ join' = [join EXCEPT !.pc[c] = "done", !.connectedRooms = TRUE]
  /\ agentState' = "listening"
  /\ direct' = IF direct.turnDetection THEN direct
               ELSE [direct EXCEPT !.callbacks = @ + 1]
  /\ UNCHANGED <<rooms, audioMonitors, monitorVars>>

NextJoin ==
  \/ LeaveRoom
  \/ RoomDisconnected
  \/ \E c \in Calls : AutoJoinRoom(c)
  \/ \E c \in Calls : Connect(c)
  \/ \E c \in Calls : RoomCreated(c)
  \/ \E c \in Calls : RoomConnected(c)
  \/ \E c \in Calls : ManagerInitialized(c)
  \/ \E c \in Calls : Joined(c)

SpecJoin == Init /\ [][NextJoin]_vars

----------------------------------------------------------------------------
(* Replies under fair scheduling: a transcription in flight completes, a   *)
(* reply the runtime produced is spoken, and the timer set for the end of  *)
(* the playback fires.  Each fairness condition is written with the        *)
(* enabling condition of its action.                                       *)

TranscriptionCompletes ==
  \E f \in inflight, outcome \in {"none", "text", "reply", "failed"} :
    TranscriptionDone(f, outcome)

ReplySpoken == \E p \in Active : ResponseSpoken(p)

PlaybackEnds == \E p \in Active : PlaybackFinished(p)

NextRepliesLive ==
  \/ Tick
  \/ \E p \in Active : TrackSubscribed(p)
  \/ \E p \in Active, rms \in {RmsSilence, RmsSpeech} : LiveFrame(p, rms)
  \/ TimerFires
  \/ TranscriptionCompletes
  \/ ReplySpoken
  \/ PlaybackEnds

SpecRepliesLive ==
  /\ Init /\ [][NextRepliesLive]_vars
  /\ WF_vars(Tick)
  /\ ([]<>(~TimerDue) \/ []<><<TimerFires>>_vars)
  /\ ([]<>(inflight = {}) \/ []<><<TranscriptionCompletes>>_vars)
  /\ ([]<>(responses \cap Active = {}) \/ []<><<ReplySpoken>>_vars)
  /\ ([]<>(activeAudioPlayers \cap Active = {}) \/ []<><<PlaybackEnds>>_vars)

----------------------------------------------------------------------------
(* Turn detection disabled: frames go to processAudioDirectly, which       *)
(* accumulates the loud ones per participant and hands them over from a    *)
(* timer.  A frame is a number here (its place in the stream) and amp is   *)
(* its average amplitude.  The timers all have the same delay: they fire   *)
(* in the order they were set.                                             *)

LoudThreshold == 1000
MaxDirectFrames == 3
Amps == {500, 2000}

isLoudEnough(amp) == amp > LoudThreshold

(* one call of processAudioDirectly(participantId, audioBuffer, roomName) *)
processAudioDirectly(w, p, seq, amp) ==
  IF ~w.rooms THEN w
  ELSE IF isLoudEnough(amp)
    THEN LET us == IF Has(w.userStates, p) THEN w.userStates
                   ELSE Put(w.userStates, p, [isProcessing |-> FALSE, obj |-> seq])
             held == IF Has(w.direct.buffers, p) THEN w.direct.buffers[p] ELSE <<>>
         IN  [w EXCEPT !.userStates = us,
                       !.direct.buffers = Put(@, p, Append(held, seq)),
                       !.direct.timers = Append(@, [p |-> p, obj |-> us[p].obj])]
  ELSE w

(* the calls one frame gets: one from each subscribed audio callback and   *)
(* one from processAudioStream itself                                      *)
RECURSIVE directCalls(_, _, _, _, _)
directCalls(w, p, seq, amp, n) ==
  IF n = 0 THEN w
  ELSE directCalls(processAudioDirectly(w, p, seq, amp), p, seq, amp, n - 1)

(* One iteration of processAudioStream's loop with turn detection disabled *)
DirectFrame(p, amp) ==
  /\ ~direct.turnDetection
  /\ p \in streams
  /\ frameSeq[p] < MaxDirectFrames
  /\ LET seq == frameSeq[p] + 1
         w == directCalls([userStates |-> userStates, direct |-> direct,
                           rooms |-> rooms], p, seq, amp, direct.callbacks + 1)
     IN  /\ frameSeq' = [frameSeq EXCEPT ![p] = seq]
         /\ userStates' = w.userStates
         /\ direct' = w.direct
  /\ emitted' = <<>>
  /\ finalTimes' = NoTimes
  /\ finalized' = NoFinalize
  /\ lastAct' = [kind |-> "directFrame", p |-> p]
  /\ UNCHANGED <<config, audioCall, join, now, streams, detectorVars, monitorVars,
                 rooms, audioMonitors, inflight, agentState, skipped, handed,
                 activeAudioPlayers, turnHistory, stoppedTimers,
                 supersededTimers, responses>>

(* The callback of the oldest pending timer of processAudioDirectly *)
DirectTimerFires ==
  /\ direct.timers # <<>>
  /\ LET tm == Head(direct.timers)
         p == tm.p
         held == IF Has(direct.buffers, p) THEN direct.buffers[p] ELSE <<>>
         go == /\ Has(userStates, p) /\ userStates[p].obj = tm.obj
               /\ held # <<>>
               /\ ~userStates[p].isProcessing
         e == Ev("directTurn", p,
                 [frames |-> held, len |-> Len(held) * FrameBytes, head |-> "pcm"],
                 0, 0)
         ls == IF go THEN lsProcessSpeechTurn(Service, e) ELSE Service
     IN  /\ SetService(ls)
         /\ emitted' = ls.evs
         /\ direct' = [direct EXCEPT
              !.timers = Tail(@),
              !.buffers = IF go THEN Put(@, p, <<>>) ELSE @,
              !.turns = IF go THEN Append(@, [p |-> p, frames |-> held]) ELSE @]
         /\ lastAct' = [kind |-> "directTimer", p |-> p]
  /\ finalTimes' = NoTimes
  /\ finalized' = NoFinalize
  /\ UNCHANGED <<config, audioCall, join, now, frameSeq, streams, detectorVars,
                 monitorVars, rooms, audioMonitors, turnHistory, stoppedTimers,
                 supersededTimers, responses>>

NextDirect ==
  \/ \E p \in Active : TrackSubscribed(p)
  \/ \E p \in Active, amp \in Amps : DirectFrame(p, amp)
  \/ DirectTimerFires
  \/ \E f \in inflight, outcome \in {"none", "text"} : TranscriptionDone(f, outcome)

SpecDirect == InitDirect /\ [][NextDirect]_vars

----------------------------------------------------------------------------
(* Properties *)

SpeechTurns == {i \in 1..Len(emitted) : emitted[i].type = "speechTurn"}

IsPrefix(s, t) == Len(s) <= Len(t) /\ \A i \in 1..Len(s) : s[i] = t[i]

(* C1: a turn finalized while an earlier turn of the participant is still  *)
(* in transcription is not dropped but processed after it: once nothing of *)
(* the participant is in flight, every turn the guard turned away has been *)
(* handed to transcription.                                                *)
C1_NoTurnDropped ==
  \A p \in Participants :
    (~\E f \in inflight : f.p = p) => skipped[p] \subseteq handed[p]

(* C2: stopping the monitoring of a participant while a debounce timer is  *)
(* pending cancels the timer and discards the segment: the participant's   *)
(* detector state and timer entry are gone, the timer is in no timer heap  *)
(* afterwards, and no event is ever emitted by its callback.               *)
C2_StoppedTimerNeverFires ==
  \A p \in Participants :
    /\ lastAct = [kind |-> "disconnected", p |-> p] /\ audioMonitors
         => ~Has(participantStates, p) /\ ~Has(debounceTimers, p)
    /\ stoppedTimers[p] > 0 =>
         /\ \A tm \in timerHeap : tm.p = p => tm.id > stoppedTimers[p]
         /\ \A i \in 1..Len(emitted) :
              emitted[i].p = p /\ emitted[i].timer # 0
                => emitted[i].timer > stoppedTimers[p]

C2_Witness ==
  /\ lastAct = [kind |-> "disconnected", p |-> "p1"]
  /\ stoppedTimers["p1"] > 0
  /\ timerHeap = {}

(* C3: once the service has left the room (leaveRoom, the room's           *)
(* Disconnected event, destroy) no speechTurn or speakingStopped is        *)
(* emitted and no turn is handed to transcription.                         *)
C3_NoTurnAfterShutdown ==
  ~rooms => \A i \in 1..Len(emitted) :
              emitted[i].type \notin {"speechTurn", "speakingStopped", "transcribe"}

(* C4: a step emits speechEnded or speechTurn for a participant only if    *)
(* the participant's last detector event before it was a speechStarted     *)
(* (the turn is open, or paused with its debounce timer pending).          *)
C4_StartedBeforeEnded ==
  [][\A p \in Participants :
       (HasEvent(emitted', "speechEnded", p) \/ HasEvent(emitted', "speechTurn", p))
         => sinceStart[p] \in {"open", "paused"}]_vars

C4_Witness ==
  /\ HasEvent(emitted, "speechEnded", "p1")
  /\ HasEvent(emitted, "speechTurn", "p1")
  /\ sinceStart["p1"] = "ended"

(* C5: two speechStarted events of a participant never occur without a     *)
(* speechEnded between them: a step emits speechStarted only if no turn    *)
(* was started yet or the last started turn was reported ended.            *)
C5_OneStartPerTurn ==
  [][\A p \in Participants :
       HasEvent(emitted', "speechStarted", p) => sinceStart[p] \in {"none", "ended"}]_vars

(* C6: from a fresh participant state, the k-th frame of a run of speech   *)
(* frames emits speechStarted exactly when k = speechFramesRequired.       *)
C6_StartOnRequiredFrame ==
  \A p \in Participants :
    lastAct = [kind |-> "frame", p |-> p] /\ freshRun[p] >= 1
      => (HasEvent(emitted, "speechStarted", p)
            <=> freshRun[p] = config.speechFramesRequired)

C6_Witness ==
  /\ lastAct = [kind |-> "frame", p |-> "p1"]
  /\ freshRun["p1"] = config.speechFramesRequired
  /\ HasEvent(emitted, "speechStarted", "p1")

(* C7: a debounce timer that is pending when the participant's run of      *)
(* speech frames reaches speechFramesRequired is cancelled: it is in no    *)
(* timer heap afterwards and no event is ever emitted by its callback.     *)
C7_SupersededTimerNeverFires ==
  \A p \in Participants :
    supersededTimers[p] > 0 =>
      /\ \A tm \in timerHeap : tm.p = p => tm.id > supersededTimers[p]
      /\ \A i \in 1..Len(emitted) :
           emitted[i].p = p /\ emitted[i].timer # 0
             => emitted[i].timer > supersededTimers[p]

C7_Witness ==
  /\ lastAct = [kind |-> "frame", p |-> "p1"]
  /\ supersededTimers["p1"] > 0
  /\ supersededTimers["p1"] + config.speechFramesRequired = frameSeq["p1"]
  /\ ~Has(debounceTimers, "p1")

(* C8: when speech resumes while the debounce timer is pending, the turn   *)
(* continues: speechStartTime is kept and the frames buffered before the   *)
(* pause stay at the front of the buffers.                                 *)
C8_ResumeKeepsTurn ==
  [][\A p \in Participants :
       Has(debounceTimers, p) /\ HasEvent(emitted', "speechStarted", p)
         => /\ participantStates'[p].speechStartTime = participantStates[p].speechStartTime
            /\ IsPrefix(participantStates[p].buffers, participantStates'[p].buffers)]_vars

(* C9: every speechTurn carries a duration d with                          *)
(* minSpeechDuration <= d <= maxSpeechDuration + debounceThreshold.        *)
C9_DurationBounds ==
  \A i \in SpeechTurns :
    /\ config.minSpeechDuration <= emitted[i].dur
    /\ emitted[i].dur <= config.maxSpeechDuration + config.debounceThreshold

(* C10: the speechTurn a debounce timer emits reports as duration the time *)
(* from the first speech frame of the turn to the silence frame that       *)
(* completed the run of silenceFramesRequired.                             *)
C10_DurationToLastSilence ==
  \A i \in SpeechTurns :
    emitted[i].timer # 0 => emitted[i].dur = finalTimes.paused - finalTimes.first

(* C11: a frame processed while the participant is speaking and more than  *)
(* maxSpeechDuration after speechStartTime finalizes the turn during that  *)
(* frame: afterwards the participant is not speaking and no debounce timer *)
(* is pending for it.                                                      *)
C11_CutoffImmediate ==
  [][\A p \in Participants :
       /\ lastAct' = [kind |-> "frame", p |-> p]
       /\ Has(participantStates, p)
       /\ participantStates[p].isSpeaking
       /\ now - participantStates[p].speechStartTime > config.maxSpeechDuration
       => /\ ~participantStates'[p].isSpeaking
          /\ ~Has(debounceTimers', p)]_vars

(* C12: after every processed frame the bytes buffered for a participant   *)
(* are at most the memory ceiling.                                         *)
C12_BufferUnderCeiling ==
  \A p \in DOMAIN participantStates :
    participantStates[p].totalLength <= MaxBufferSize

(* C12 as amended: the buffered bytes are at most the ceiling unless the   *)
(* newest frame alone is larger, and then it is the only frame buffered;   *)
(* totalLength is the sum of the buffered frames' lengths.                 *)
C12_CeilingOrNewestFrame ==
  \A p \in DOMAIN participantStates :
    LET st == participantStates[p]
    IN  /\ st.totalLength = SumLen(st.buffers)
        /\ st.totalLength <= MaxBufferSize \/ Len(st.buffers) = 1
        /\ lastAct = [kind |-> "frame", p |-> p] /\ st.buffers # <<>>
             => st.buffers[Len(st.buffers)].seq = frameSeq[p]

C12_Witness ==
  /\ Has(participantStates, "p1")
  /\ sinceStart["p1"] = "none"
  /\ Len(participantStates["p1"].buffers) >= 2
  /\ participantStates["p1"].buffers[1].seq > 1
  /\ participantStates["p1"].totalLength > MaxBufferSize - 4 * MiB

(* C13: a finalize whose duration is below minSpeechDuration, whose        *)
(* buffers are empty, or whose concatenated buffer is implausible (too     *)
(* small, or a RIFF header without the WAVE tag) emits neither speechEnded *)
(* nor speechTurn and leaves the participant idle: not speaking, both      *)
(* counters 0, no buffers, totalLength 0.                                  *)
TooSmall(buf) ==
  buf.len < MinValidBytes \/ (buf.head = "pcm" /\ buf.len < MinRawBytes)

WrongTag(buf) == buf.len > RiffCheckBytes /\ buf.head = "RIFF/other"

Discarded(fin) ==
  \/ fin.dur < config.minSpeechDuration
  \/ fin.buf.frames = <<>>
  \/ TooSmall(fin.buf)
  \/ WrongTag(fin.buf)

Idle(st) ==
  /\ ~st.isSpeaking
  /\ st.speechFrameCount = 0 /\ st.silenceFrameCount = 0
  /\ st.buffers = <<>> /\ st.totalLength = 0

C13_DiscardIsSilent ==
  finalized.p # "none" /\ Discarded(finalized)
    => /\ ~HasEvent(emitted, "speechEnded", finalized.p)
       /\ ~HasEvent(emitted, "speechTurn", finalized.p)
       /\ Has(participantStates, finalized.p)
            => Idle(participantStates[finalized.p])

C13_Witness ==
  /\ finalized.p = "p1"
  /\ finalized.dur >= config.minSpeechDuration
  /\ WrongTag(finalized.buf)
  /\ ~TooSmall(finalized.buf)
  /\ Idle(participantStates["p1"])

(* the window after a push of v: the newest size entries in arrival order *)
Newest(win, v, size) ==
  LET a == Append(win, v)
  IN  IF Len(a) > size THEN SubSeq(a, Len(a) - size + 1, Len(a)) ELSE a

Count(evs, type, p) ==
  Cardinality({i \in 1..Len(evs) : evs[i].type = type /\ evs[i].p = p})

WindowOf(p) == IF Has(volumeBuffers, p) THEN volumeBuffers[p] ELSE <<>>

(* C14: a processed frame of p emits interruptionDetected(p) exactly when, *)
(* with the frame's volume pushed, the window holds volumeWindowSize       *)
(* entries whose mean exceeds speakingThreshold; it is emitted once, the   *)
(* window is empty afterwards, and a frame adds at most one entry, so      *)
(* volumeWindowSize further frames pass before the next one.               *)
C14_InterruptionOnFullLoudWindow ==
  [][\A p \in Participants :
       lastAct' = [kind |-> "frame", p |-> p] =>
         \A i \in 1..Len(emitted') :
           emitted'[i].type = "volumeDetected" =>
             LET win == Newest(WindowOf(p), emitted'[i].dur, config.volumeWindowSize)
                 loud == /\ Len(win) = config.volumeWindowSize
                         /\ SumSeq(win) > config.speakingThreshold * Len(win)
             IN  /\ Count(emitted', "interruptionDetected", p) = IF loud THEN 1 ELSE 0
                 /\ loud => volumeBuffers'[p] = <<>>
                 /\ Len(volumeBuffers'[p]) <= Len(WindowOf(p)) + 1]_vars

C14_Witness ==
  /\ lastAct = [kind |-> "frame", p |-> "p1"]
  /\ HasEvent(emitted, "interruptionDetected", "p1")
  /\ volumeBuffers["p1"] = <<>>
  /\ frameSeq["p1"] > config.volumeWindowSize

(* C15: a participant's volume window never holds more than                *)
(* volumeWindowSize entries, and a processed frame that raises no          *)
(* interruption leaves it holding the newest entries in arrival order:     *)
(* on overflow the oldest entry is the one removed.                        *)
C15_WindowKeepsNewest ==
  [][\A p \in DOMAIN volumeBuffers' :
       /\ Len(volumeBuffers'[p]) <= config.volumeWindowSize
       /\ lastAct' = [kind |-> "frame", p |-> p]
            /\ ~HasEvent(emitted', "interruptionDetected", p)
            => \A i \in 1..Len(emitted') :
                 emitted'[i].type = "volumeDetected" =>
                   volumeBuffers'[p] =
                     Newest(WindowOf(p), emitted'[i].dur, config.volumeWindowSize)]_vars

C15_Witness ==
  /\ lastAct = [kind |-> "frame", p |-> "p1"]
  /\ ~HasEvent(emitted, "interruptionDetected", "p1")
  /\ frameSeq["p1"] = config.volumeWindowSize + 1
  /\ Len(volumeBuffers["p1"]) = config.volumeWindowSize
  /\ volumeBuffers["p1"][1] # volumeBuffers["p1"][2]

(* C16: when interruptionDetected is raised while a reply is registered as *)
(* playing, the handler stops it: after a step that raised an interruption *)
(* no active audio player is registered.                                   *)
C16_InterruptionStopsPlayback ==
  (\E i \in 1..Len(emitted) : emitted[i].type = "interruptionDetected")
    => activeAudioPlayers = {}

(* what the detector and the monitor hold for participant p *)
DetectionOf(p) ==
  [state |-> IF Has(participantStates, p) THEN <<participantStates[p]>> ELSE <<>>,
   timer |-> IF Has(debounceTimers, p) THEN <<debounceTimers[p]>> ELSE <<>>,
   pending |-> {tm \in timerHeap : tm.p = p},
   window |-> IF Has(volumeBuffers, p) THEN <<volumeBuffers[p]>> ELSE <<>>]

(* C17: a frame of participant a, the firing of a's debounce timer or the  *)
(* end of a's monitoring leaves the turn state, the volume window and the  *)
(* pending debounce timer of every other participant b unchanged.          *)
C17_ParticipantsIndependent ==
  [][\A a, b \in Participants :
       a # b /\ lastAct'.p = a => DetectionOf(b)' = DetectionOf(b)]_vars

C17_Witness ==
  /\ lastAct = [kind |-> "disconnected", p |-> "p1"]
  /\ stoppedTimers["p1"] > 0
  /\ Has(debounceTimers, "p2")
  /\ \E tm \in timerHeap : tm.p = "p2"
  /\ Len(participantStates["p2"].buffers) >= 2

C19_FailedTurnSendsNothing ==
  lastAct.kind \in {"noText", "handlingFailed"} =>
    /\ \A i \in 1..Len(emitted) : emitted[i].type # "transcription"
    /\ Has(userStates, lastAct.p) /\ ~(\E f \in inflight : f.p = lastAct.p)
          => ~userStates[lastAct.p].isProcessing

(* C20: for one participant at most one turn is in transcription at any    *)
(* time.                                                                   *)
C20_OneTurnAtATime ==
  \A p \in Participants : Cardinality({f \in inflight : f.p = p}) <= 1

(* C21: a frame received for a participant leaves that participant with    *)
(* detection state and monitoring state, whether or not startMonitoring    *)
(* was called for the participant before.                                  *)
C21_FirstFrameCreatesState ==
  \A p \in Participants :
    lastAct.kind \in {"frame", "ignored"} /\ lastAct.p = p /\ audioMonitors =>
      Has(participantStates, p) /\ Has(monitorStates, p)

(* C22: a participant that is not monitored (never started, or stopped)    *)
(* has nothing left in the monitor or the detector: no turn state with its *)
(* counters and buffers, no volume window, no processing flag, no debounce *)
(* timer, pending or registered.  A stopped participant is therefore in    *)
(* the state of a participant never seen.                                  *)
C22_NothingPersists ==
  \A p \in Participants :
    ~Has(monitorStates, p) =>
      /\ ~Has(volumeBuffers, p)
      /\ ~Has(participantStates, p)
      /\ ~Has(processingFlags, p)
      /\ ~Has(debounceTimers, p)
      /\ \A tm \in timerHeap : tm.p # p

C22_Witness ==
  /\ lastAct = [kind |-> "disconnected", p |-> "p1"]
  /\ stoppedTimers["p1"] > 0
  /\ ~Has(monitorStates, "p1")
  /\ Has(monitorStates, "p2") /\ Has(volumeBuffers, "p2") /\ isMonitoring

(* C23: a frame of any byte length leaves the ingestion of the             *)
(* participant's stream running: the loudness computation returns a value  *)
(* for it and raises no error.                                             *)
C23_AnyLengthKeepsIngestion ==
  \A p \in Participants :
    lastAct.p = p /\ lastAct.kind \in {"frame", "ignored", "frameError"} =>
      p \in streams

(* the 16-bit samples a buffer of whole samples holds *)
Samples(buf) == [i \in 1..(Len(buf) \div 2) |-> readInt16LE(buf, 2 * (i - 1))]

(* y is the integer nearest to x / d, the upper one of two equally near *)
IsNearest(y, x, d) == 2 * (x - d * y) >= -d /\ 2 * (x - d * y) < d

(* C24: resampleAudio is linear interpolation.  The output has             *)
(* floor(n * toRate / fromRate) samples; output sample i is the integer    *)
(* nearest to the interpolation at position i * fromRate / toRate between  *)
(* the two input samples around it, and the last input sample when there   *)
(* is no input sample after the position; from 48000 Hz to 16000 Hz the    *)
(* output is every third input sample.                                     *)
C24_ResampleIsLinearInterpolation ==
  audioCall.fn = "resampleAudio" =>
    LET src == Samples(audioCall.input)
        dst == Samples(audioCall.output)
        n == Len(src)
        from == audioCall.fromRate
        to == audioCall.toRate
    IN  /\ ~audioCall.threw
        /\ Len(audioCall.output) = 2 * Len(dst)
        /\ Len(dst) = (n * to) \div from
        /\ \A i \in 0..(Len(dst) - 1) :
             LET k == (i * from) \div to
                 r == (i * from) % to
                 g == GCD(r, to)
             IN  IF k + 1 <= n - 1
                   THEN IsNearest(dst[i + 1],
                                  src[k + 1] * ((to - r) \div g)
                                    + src[k + 2] * (r \div g),
                                  to \div g)
                   ELSE dst[i + 1] = src[n]
        /\ from = 48000 /\ to = 16000 =>
             /\ Len(dst) = n \div 3
             /\ \A i \in 0..(Len(dst) - 1) : dst[i + 1] = src[3 * i + 1]

C24_Witness ==
  /\ audioCall.fn = "resampleAudio"
  /\ audioCall.fromRate = 24000 /\ audioCall.toRate = 16000
  /\ Samples(audioCall.input) = <<-5, 0, -5, 0>>
  /\ Samples(audioCall.output) = <<-5, -2>>

(* reading a header field back: unsigned little-endian at a byte offset *)
readUInt16LE(buf, offset) == buf[offset + 1] + 256 * buf[offset + 2]
readUInt32LE(buf, offset) ==
  buf[offset + 1] + 256 * buf[offset + 2] + 65536 * buf[offset + 3]
    + 16777216 * buf[offset + 4]

(* C25: convertPCMToWAV of a little-endian payload is a 44-byte header     *)
(* followed by the payload unchanged; read back, the header carries the    *)
(* RIFF and WAVE tags, file size 36 + payload length, data size = payload  *)
(* length, and the sample rate and channel count that were passed in.      *)
C25_WavRoundTrip ==
  audioCall.fn = "convertPCMToWAV" /\ audioCall.byteOrder = "LE" =>
    LET wav == audioCall.output
        pcm == audioCall.input
    IN  /\ Len(wav) = WavHeaderBytes + Len(pcm)
        /\ SubSeq(wav, WavHeaderBytes + 1, Len(wav)) = pcm
        /\ SubSeq(wav, 1, 4) = Ascii("RIFF")
        /\ SubSeq(wav, 9, 12) = Ascii("WAVE")
        /\ readUInt32LE(wav, 4) = 36 + Len(pcm)
        /\ readUInt32LE(wav, 40) = Len(pcm)
        /\ readUInt32LE(wav, 24) = audioCall.fromRate
        /\ readUInt16LE(wav, 22) = audioCall.channels

C25_Witness ==
  /\ audioCall.fn = "convertPCMToWAV"
  /\ audioCall.byteOrder = "LE"
  /\ audioCall.fromRate = 48000 /\ audioCall.channels = 2
  /\ Samples(audioCall.input) = <<-32768, -5, 32767>>
  /\ Len(audioCall.output) = WavHeaderBytes + 6

(* the counters of p before a frame: those of its state, or of the state   *)
(* the frame will create                                                   *)
CountersOf(p) ==
  LET st == IF Has(participantStates, p) THEN participantStates[p]
            ELSE NewVoiceActivityState
  IN  <<st.speechFrameCount, st.silenceFrameCount>>

(* the events are those of a processed frame of p whose rms is neither     *)
(* above speechThreshold nor below silenceThreshold                        *)
IsAmbiguousFrame(act, evs, p) ==
  /\ act = [kind |-> "frame", p |-> p]
  /\ \E i \in 1..Len(evs) :
       /\ evs[i].type = "volumeDetected"
       /\ ~(evs[i].dur > config.speechThreshold)
       /\ ~(evs[i].dur < config.silenceThreshold)

(* C26: an ambiguous frame leaves both counters as they were and is the    *)
(* last of the participant's buffered frames afterwards.                   *)
C26_AmbiguousKeepsCounters ==
  [][\A p \in Participants :
       IsAmbiguousFrame(lastAct', emitted', p) =>
         /\ <<participantStates'[p].speechFrameCount,
              participantStates'[p].silenceFrameCount>> = CountersOf(p)
         /\ participantStates'[p].buffers # <<>>
         /\ participantStates'[p].buffers[Len(participantStates'[p].buffers)].seq
              = frameSeq'[p]]_vars

(* C26 as amended: the same, unless the frame arrives more than            *)
(* maxSpeechDuration into a turn; then the cutoff finalizes the turn with  *)
(* the frame as the last one of its buffer, and the reset that follows     *)
(* empties the buffers and zeroes both counters.                           *)
C26_AmbiguousKeepsCountersUnlessCutoff ==
  [][\A p \in Participants :
       IsAmbiguousFrame(lastAct', emitted', p) =>
         IF finalized'.p = p
           THEN /\ participantStates[p].isSpeaking
                /\ now - participantStates[p].speechStartTime
                     > config.maxSpeechDuration
                /\ finalized'.buf.frames[Len(finalized'.buf.frames)] = frameSeq'[p]
                /\ participantStates'[p].buffers = <<>>
                /\ participantStates'[p].speechFrameCount = 0
                /\ participantStates'[p].silenceFrameCount = 0
           ELSE /\ <<participantStates'[p].speechFrameCount,
                     participantStates'[p].silenceFrameCount>> = CountersOf(p)
                /\ participantStates'[p].buffers # <<>>
                /\ participantStates'[p].buffers[
                     Len(participantStates'[p].buffers)].seq = frameSeq'[p]]_vars

C26_Witness ==
  /\ IsAmbiguousFrame(lastAct, emitted, "p1")
  /\ participantStates["p1"].speechFrameCount = 1
  /\ Len(participantStates["p1"].buffers) >= 2
  /\ participantStates["p1"].buffers[Len(participantStates["p1"].buffers)].seq
       = frameSeq["p1"]

(* the last step was a frame of p that emitted speechStarted *)
StartedNow(p) ==
  lastAct = [kind |-> "frame", p |-> p] /\ HasEvent(emitted, "speechStarted", p)

(* the last step was a frame of p that scheduled p's debounce timer *)
ScheduledNow(p) ==
  /\ lastAct = [kind |-> "frame", p |-> p]
  /\ Has(debounceTimers, p)
  /\ debounceTimers[p] = frameSeq[p]

C28_FinalizedOnce ==
  [][\A p \in Participants :
       /\ Has(processingFlags', p) => ~processingFlags'[p]
       /\ HasEvent(emitted', "speechEnded", p) \/ HasEvent(emitted', "speechTurn", p)
            => /\ Count(emitted', "speechEnded", p) = 1
               /\ Count(emitted', "speechTurn", p) = 1
               /\ sinceStart[p] \in {"open", "paused"}
               /\ sinceStart'[p] = "ended"
               /\ ~Has(debounceTimers', p)
               /\ \A tm \in timerHeap' : tm.p # p
               /\ Has(participantStates', p)
                    => /\ ~participantStates'[p].isSpeaking
                       /\ participantStates'[p].buffers = <<>>]_vars

C28_Witness ==
  /\ lastAct = [kind |-> "frame", p |-> "p1"]
  /\ \E i \in SpeechTurns : emitted[i].p = "p1" /\ emitted[i].timer = 0
  /\ sinceStart["p1"] = "ended"
  /\ \A tm \in timerHeap : tm.p # "p1"

(* C29: the buffer of a speechTurn holds, in arrival order and each once,  *)
(* every frame received after the frame that opened the turn, up to the    *)
(* last frame received before the finalization (frames of FrameBytes       *)
(* bytes: nothing is evicted).                                             *)
C29_BufferIsWholeTurn ==
  \A i \in SpeechTurns :
    LET p == emitted[i].p
    IN  emitted[i].buf.frames =
          [k \in 1..(frameSeq[p] - turnFrom[p]) |-> turnFrom[p] + k]

(* C30: eviction removes the oldest buffers only.  After every frame that  *)
(* leaves buffers, they are a suffix of the buffers held before the frame  *)
(* followed by the frame itself, they end with that frame, and their       *)
(* frames are consecutive in arrival order.                                *)
C30_EvictionKeepsSuffix ==
  [][\A p \in Participants :
       (/\ lastAct' = [kind |-> "frame", p |-> p]
        /\ Has(participantStates', p)
        /\ participantStates'[p].buffers # <<>>)
         => LET new == participantStates'[p].buffers
                old == IF Has(participantStates, p)
                         THEN participantStates[p].buffers ELSE <<>>
                all == Append(old, new[Len(new)])
            IN  /\ new[Len(new)].seq = frameSeq'[p]
                /\ Len(new) <= Len(all)
                /\ new = SubSeq(all, Len(all) - Len(new) + 1, Len(all))
                /\ \A i \in 1..(Len(new) - 1) : new[i + 1].seq = new[i].seq + 1]_vars

C30_Witness ==
  /\ lastAct = [kind |-> "frame", p |-> "p1"]
  /\ Has(participantStates, "p1")
  /\ Len(participantStates["p1"].buffers) >= 2
  /\ participantStates["p1"].buffers[1].seq >= 2
  /\ participantStates["p1"].buffers[Len(participantStates["p1"].buffers)].seq = frameSeq["p1"]
  /\ participantStates["p1"].totalLength <= MaxBufferSize

Speaking(p) == Has(participantStates, p) /\ participantStates[p].isSpeaking

(* C31: once a participant is speaking (speechStarted was emitted), it     *)
(* eventually stops being so: its turn is finalized or discarded, or the   *)
(* participant is removed, whether or not further frames arrive.  Stated   *)
(* for the turns that start at time 0, so that the clock advances by       *)
(* MaxTime, more than maxSpeechDuration + debounceThreshold, after them.   *)
C31_SpeakingEventuallyEnds ==
  \A p \in Participants : (Speaking(p) /\ now = 0) ~> ~Speaking(p)

(* C32: in one step a participant's turn starts at most one transcription, *)
(* and only a step that emitted the detector's speechTurn starts one,      *)
(* however many speakingStopped events announce the turn.                  *)
C32_OneTranscriptionPerTurn ==
  \A p \in Participants :
    /\ Count(emitted, "transcribe", p) <= 1
    /\ Count(emitted, "transcribe", p) = 1 => Count(emitted, "speechTurn", p) = 1

C32_Witness ==
  /\ Count(emitted, "speechTurn", "p1") = 1
  /\ Count(emitted, "speakingStopped", "p1") >= 2
  /\ Count(emitted, "transcribe", "p1") = 1

(* C33: the step that finalizes a participant's turn (the detector emits   *)
(* speechTurn) carries exactly one speakingStopped of the monitor for that *)
(* participant, and no other step carries any.                             *)
C33_OneSpeakingStoppedPerTurn ==
  \A p \in Participants :
    Count(emitted, "speakingStopped", p) = Count(emitted, "speechTurn", p)

(* C34: a frame of a participant that the monitor does not monitor (no     *)
(* monitor state, in particular right after stopMonitoring on its          *)
(* disconnection) is ignored: it emits no event and leaves the participant *)
(* without state in the monitor, the detector and the service.             *)
C34_StoppedFramesIgnored ==
  [][\A p \in Participants :
       (/\ lastAct'.p = p /\ lastAct'.kind \in {"frame", "ignored"}
        /\ \/ ~Has(monitorStates, p)
           \/ lastAct = [kind |-> "disconnected", p |-> p] /\ audioMonitors)
         => /\ lastAct'.kind = "ignored"
            /\ emitted' = <<>>
            /\ ~Has(monitorStates', p) /\ ~Has(volumeBuffers', p)
            /\ ~Has(participantStates', p) /\ ~Has(processingFlags', p)
            /\ ~Has(debounceTimers', p)
            /\ UNCHANGED <<detectorVars, monitorVars, serviceVars>>]_vars

C34_Witness ==
  /\ lastAct = [kind |-> "ignored", p |-> "p1"]
  /\ audioMonitors
  /\ "p1" \in streams
  /\ ~Has(monitorStates, "p1")
  /\ frameSeq["p1"] >= 3
  /\ sinceStart["p1"] = "none"

(* C35: a participant with a pending debounce timer is not speaking, and   *)
(* no participant has two pending debounce timers; the timer registered in *)
(* debounceTimers is the pending one.                                      *)
C35_TimerOnlyWhileNotSpeaking ==
  \A p \in Participants :
    LET pending == {tm \in timerHeap : tm.p = p}
    IN  /\ Cardinality(pending) <= 1
        /\ pending # {} => Has(participantStates, p) /\ ~participantStates[p].isSpeaking
        /\ Has(debounceTimers, p) => \E tm \in pending : tm.id = debounceTimers[p]

C35_Witness ==
  /\ \E tm \in timerHeap : tm.p = "p1" /\ tm.id > supersededTimers["p1"]
  /\ supersededTimers["p1"] > 0
  /\ ~participantStates["p1"].isSpeaking

(* C36: a participant's totalLength is the sum of the byte lengths of the  *)
(* buffers it holds, in every reachable state.                             *)
C36_TotalLengthIsSum ==
  \A p \in Participants :
    Has(participantStates, p) =>
      participantStates[p].totalLength = SumLen(participantStates[p].buffers)

C36_Witness ==
  /\ lastAct = [kind |-> "frame", p |-> "p1"]
  /\ Has(participantStates, "p1")
  /\ participantStates["p1"].totalLength = 10 * MiB
  /\ Len(participantStates["p1"].buffers) = 2
  /\ participantStates["p1"].buffers[1].seq >= 2

(* C37: the service holds at most one open Room connection: a Room that an *)
(* autoJoinRoom call connected is the one registered in rooms.             *)
C37_OneConnectionPerRoom ==
  /\ Cardinality(join.open) <= 1
  /\ join.open \subseteq join.mapped

(* C38: whenever the agent is transcribing, thinking or speaking, it is    *)
(* eventually listening (or idle) again.                                   *)
C38_AgentReturnsToListening ==
  agentState \in {"transcribing", "thinking", "speaking"}
    ~> agentState \in {"listening", "idle"}

(* C39: while the service is connected to no room the agent state is idle. *)
C39_IdleWithoutRoom ==
  ~rooms => agentState = "idle"

(* C40: with turn detection disabled, a participant's accumulation buffer  *)
(* holds no frame twice, and no frame is in two of the turns handed to     *)
(* processing or twice in one.                                             *)
C40_FrameBufferedOnce ==
  /\ \A p \in DOMAIN direct.buffers :
       \A i, j \in 1..Len(direct.buffers[p]) :
         direct.buffers[p][i] = direct.buffers[p][j] => i = j
  /\ \A t, u \in 1..Len(direct.turns) :
       \A i \in 1..Len(direct.turns[t].frames), j \in 1..Len(direct.turns[u].frames) :
         /\ direct.turns[t].p = direct.turns[u].p
         /\ direct.turns[t].frames[i] = direct.turns[u].frames[j]
         => t = u /\ i = j

====
